---- MODULE Spec2Model ----
(***************************************************************************)
(* Model of the causal-analysis core of the repository: the graph-driven   *)
(* SyntheticDataGenerator, the CausalModel context and dispatch_query;     *)
(* of the conversational CausalAnalysisAgent built on dispatch_query; and  *)
(* of the prompt/response callback of the cloud functions.                 *)
(*                                                                         *)
(* Real-valued coefficients are held as integers in units of 1/24, so that *)
(* 0.5 is 12, 3.0 is 72 and every np.linspace(0.5, 3.0, n) entry with      *)
(* n <= 7 is an exact integer.                                             *)
(***************************************************************************)
EXTENDS Integers, Sequences, FiniteSets, TLC

VARIABLES
    config,     \* the graph configuration the process works with
    gen,        \* SyntheticDataGenerator instances: fields set by __init__
    rng,        \* numpy's process-wide random generator (np.random)
    out,        \* per generator: what its last call returned or raised
    trace,      \* per generator: the variables generate_data simulated, with
                \* the columns present in `data` at that moment
    age,        \* per generator: calls made in the process since its
                \* __init__ returned
    sample,     \* what the last generate_sample_dataset call returned
    ops,        \* number of calls made so far (bounds the run)
    cm,         \* the CausalModel object the process holds
    cmOut,      \* what the last CausalModel call returned or raised
    req,        \* the inputs of the dispatch_query call of this run, and
                \* what the external estimation library will answer
    result,     \* what dispatch_query returned (or that it raised)
    calls,      \* the dispatch_query calls completed so far, in order:
                \* inputs, returned value, and the state of numpy's
                \* generator when the call was made
    agent,      \* the fields of the CausalAnalysisAgent object
    reply,      \* what the last process_user_question call returned or raised
    session,    \* the session's item in the sessions table
    handler,    \* per websocket-handler invocation: how far
                \* handle_user_response got, its locals and its answer
    sfn         \* Step Functions: task tokens issued, and the
                \* send_task_success / send_task_failure calls received

genVars == <<gen, rng, out, trace, age, sample>>
cmVars == <<cm, cmOut>>
dispVars == <<req, result, calls>>
agentVars == <<agent, reply>>
wsVars == <<session, handler, sfn>>
vars == <<config, gen, rng, out, trace, age, sample, ops, cm, cmOut, req, result, calls,
          agent, reply, session, handler, sfn>>

----------------------------------------------------------------------------
(* Bounds of the model *)

MaxSamples == 2     \* n_samples ranges over 1..MaxSamples
MaxSeed == 1        \* integer seeds range over 0..MaxSeed
MaxDatasets == 2    \* n_datasets ranges over 1..MaxDatasets
MaxOps == 3         \* calls per run in the generator specification
MaxTurns == 4       \* messages and resets handled by the agent in one run
MaxTokens == 2      \* task tokens Step Functions issues in one run
MaxResponses == 3   \* `response` messages handled in one run
MaxRows == 3        \* rows of the largest data file

----------------------------------------------------------------------------
(* Names, configurations *)

Names == {"X", "T", "Y", "Z"}

\* Insertion order of the keys of the "variables" mapping.
NameOrder == <<"X", "T", "Y", "Z">>

Types == {"continuous", "binary", "categorical"}

TypeOf(v) ==
    CASE v = "X" -> "continuous"
      [] v = "T" -> "binary"
      [] v = "Y" -> "continuous"
      [] OTHER   -> "categorical"

\* Candidate edges of a configuration; Y->X and Z->Z close cycles.
EdgeUniverse ==
    { <<"X", "T">>, <<"X", "Y">>, <<"T", "Y">>, <<"Y", "X">>,
      <<"T", "Z">>, <<"Z", "Z">> }

\* A parsed configuration file. `keys` holds the top-level keys that are
\* present; "" stands for an absent treatment_variable / outcome_variable.
MkTypedConfig(types, es, keys, t, o, cf) ==
    [ variables |-> types,
      edges |-> es,
      keys |-> keys,
      treatment_variable |-> t,
      outcome_variable |-> o,
      confounders |-> cf ]

MkConfig(vs, es, keys, t, o, cf) ==
    MkTypedConfig([v \in vs |-> TypeOf(v)], es, keys, t, o, cf)

AllKeys == {"variables", "edges"}

GraphConfigs ==
    { MkConfig(vs, es, AllKeys, "T", "Y", {"X"}) :
        vs \in SUBSET Names, es \in SUBSET EdgeUniverse }

\* Whether a configuration's edge set, as a directed graph, has a cycle
\* (stated by reachability, independently of the sort below).
RECURSIVE ReachFrom(_, _, _)
ReachFrom(es, frontier, seen) ==
    LET next == { e[2] : e \in { e \in es : e[1] \in frontier } } \ seen
    IN IF next = {} THEN seen ELSE ReachFrom(es, next, seen \cup next)

HasCycle(es) ==
    \E e \in es : e[1] \in ReachFrom(es, {e[2]}, {e[2]})

----------------------------------------------------------------------------
(* networkx: DiGraph, topological_sort, is_directed_acyclic_graph *)

SeqOf(S) == SelectSeq(NameOrder, LAMBDA x : x \in S)

\* G.add_node for each declared variable, G.add_edge for each edge (which
\* also adds endpoints that are not declared).
DiGraph(vs, es) ==
    [ nodes |-> vs \cup { e[1] : e \in es } \cup { e[2] : e \in es },
      edges |-> es ]

Predecessors(G, v) == { e[1] : e \in { e \in G.edges : e[2] = v } }

\* Kahn's algorithm by generations, as networkx.topological_generations:
\* the next generation holds the unplaced nodes all of whose predecessors
\* are placed. A node on or behind a cycle is never placed.
RECURSIVE TopoGenerations(_, _)
TopoGenerations(G, placed) ==
    LET done == { placed[i] : i \in 1..Len(placed) }
        ready == { v \in G.nodes \ done : Predecessors(G, v) \subseteq done }
    IN IF ready = {} THEN placed
       ELSE TopoGenerations(G, placed \o SeqOf(ready))

\* Mutant: the nodes in insertion order, whatever the edges.
InsertionOrderSort(G) == SeqOf(G.nodes)

TopologicalSort(G) == TopoGenerations(G, <<>>)

IsDirectedAcyclicGraph(G) == Len(TopologicalSort(G)) = Cardinality(G.nodes)

----------------------------------------------------------------------------
(* numpy's global random state *)

Entropy == {1, 2}          \* what the operating system may hand out

NoneSeed == [none |-> TRUE, val |-> 0]
IntSeed(k) == [none |-> FALSE, val |-> k]
Seeds == { IntSeed(k) : k \in 0..MaxSeed } \cup {NoneSeed}

\* Mutant: the seed call leaves the global generator as it is.
ReseedIgnored(k) == rng

\* np.random.seed(k) for an integer k.
Reseed(k) == [src |-> "seed", val |-> k, hist |-> <<>>]

\* np.random.seed(None): fresh entropy e.
ReseedEntropy(e) == [src |-> "entropy", val |-> e, hist |-> <<>>]

\* A draw of n values of some kind: the values are a function of the state
\* the generator is in, and the state advances.
Advance(r, kind, n) == [r EXCEPT !.hist = Append(@, <<kind, n>>)]

----------------------------------------------------------------------------
(* SyntheticDataGenerator *)

Gens == {"g1", "g2"}

NoGen ==
    [ built |-> FALSE, seed |-> NoneSeed, dag_config |-> MkConfig({}, {}, {}, "", "", {}),
      variables |-> <<>>, edges |-> {}, graph |-> DiGraph({}, {}),
      topological_order |-> <<>> ]

DefaultCoeff == 12      \* 0.5

IsTreatmentOutcomeRelationship(cfg, parent, child) ==
    parent = cfg.treatment_variable /\ child = cfg.outcome_variable

IsConfounderRelationship(cfg, parent, child) ==
    /\ parent \in cfg.confounders
    /\ (child = cfg.treatment_variable \/ child = cfg.outcome_variable)

\* The coefficient _generate_continuous_variable gives the edge parent->child.
ContinuousCoeff(cfg, parent, child, treatment_effect, confounder_strength) ==
    IF IsTreatmentOutcomeRelationship(cfg, parent, child) THEN treatment_effect
    ELSE IF IsConfounderRelationship(cfg, parent, child) THEN confounder_strength
    ELSE DefaultCoeff

\* Mutant: the confounder rule ahead of the treatment->outcome rule.
BinaryCoeffConfounderFirst(cfg, parent, child, treatment_effect, confounder_strength) ==
    IF IsConfounderRelationship(cfg, parent, child) THEN confounder_strength
    ELSE IF IsTreatmentOutcomeRelationship(cfg, parent, child) THEN treatment_effect
    ELSE DefaultCoeff

\* The coefficient _generate_binary_variable gives the edge parent->child.
BinaryCoeff(cfg, parent, child, treatment_effect, confounder_strength) ==
    IF IsTreatmentOutcomeRelationship(cfg, parent, child) THEN treatment_effect
    ELSE IF IsConfounderRelationship(cfg, parent, child) THEN confounder_strength
    ELSE DefaultCoeff

NoRng == [src |-> "none", val |-> 0, hist |-> <<>>]

\* A generated column: the draws it was made of (the random state at the
\* draw), its length, and the linear combination of parent columns.
Column(kind, n, draw, draw2, scale, terms) ==
    [ kind |-> kind, n |-> n, draw |-> draw, draw2 |-> draw2,
      scale |-> scale, terms |-> terms ]

\* Each procedure returns [col, rng]: the column and the advanced state.
GenerateContinuousVariable(g, n, v, parents, p, r) ==
    IF parents = {}
    THEN [ col |-> Column("normal", n, r, NoRng, 24, <<>>),
           rng |-> Advance(r, "normal", n) ]
    ELSE [ col |-> Column("linear", n, r, NoRng, p.noise_std,
                     [q \in parents |-> ContinuousCoeff(g.dag_config, q, v,
                          p.treatment_effect, p.confounder_strength)]),
           rng |-> Advance(r, "normal", n) ]

GenerateBinaryVariable(g, n, v, parents, p, r) ==
    IF parents = {}
    THEN [ col |-> Column("bernoulli", n, r, NoRng, 0, <<>>),
           rng |-> Advance(r, "binomial", n) ]
    ELSE [ col |-> Column("logistic", n, r, NoRng, 0,
                     [q \in parents |-> BinaryCoeff(g.dag_config, q, v,
                          p.treatment_effect, p.confounder_strength)]),
           rng |-> Advance(r, "binomial", n) ]

GenerateCategoricalVariable(g, n, v, parents, p, r) ==
    IF parents = {}
    THEN [ col |-> Column("choice3", n, r, NoRng, 0, <<>>),
           rng |-> Advance(r, "choice", n) ]
    ELSE LET b == GenerateBinaryVariable(g, n, v, parents, p, r)
         IN [ col |-> Column("expand", n, r, b.rng, 0, b.col.terms),
              rng |-> Advance(b.rng, "choice", n) ]

NoTable == [columns |-> {}, nrows |-> 0, col |-> <<>>]

\* pd.DataFrame(data) of a dict of equal-length arrays: a dict without keys
\* gives a frame without rows.
DataFrame(data, n) ==
    [ columns |-> DOMAIN data,
      nrows |-> IF DOMAIN data = {} THEN 0 ELSE n,
      col |-> data ]

\* The loop of generate_data from position i of the topological order.
\* Returns the table, the advanced random state, the error raised (if any)
\* and the visits: <<variable, columns present when it was simulated>>.
RECURSIVE GenLoop(_, _, _, _, _, _)
GenLoop(g, i, data, r, p, visits) ==
    IF i > Len(g.topological_order)
    THEN [ table |-> DataFrame(data, p.n_samples), rng |-> r, err |-> "",
           visits |-> visits ]
    ELSE LET v == g.topological_order[i]
             parents == Predecessors(g.graph, v)
             raised == [ table |-> NoTable, rng |-> r, err |-> "KeyError",
                         visits |-> visits ]
         IN IF v \notin DOMAIN g.variables THEN raised
            ELSE LET step == Append(visits, [var |-> v, have |-> DOMAIN data])
                     res == CASE g.variables[v] = "binary" ->
                                   GenerateBinaryVariable(g, p.n_samples, v, parents, p, r)
                              [] g.variables[v] = "continuous" ->
                                   GenerateContinuousVariable(g, p.n_samples, v, parents, p, r)
                              [] OTHER ->
                                   GenerateCategoricalVariable(g, p.n_samples, v, parents, p, r)
                 IN IF ~(parents \subseteq DOMAIN data)
                    THEN [raised EXCEPT !.visits = step]
                    ELSE GenLoop(g, i + 1, data @@ (v :> res.col), res.rng, p, step)

GenerateDataOf(g, p, r) == GenLoop(g, 1, <<>>, r, p, <<>>)

Params(n, te, ns, cs) ==
    [ n_samples |-> n, treatment_effect |-> te, noise_std |-> ns,
      confounder_strength |-> cs ]

NoParams == Params(0, 0, 0, 0)

\* `fresh`: the call was the first one in the process after the generator's
\* __init__.
Out(op, err, args, table, datasets) ==
    [ op |-> op, err |-> err, args |-> args, table |-> table,
      datasets |-> datasets, effects |-> [given |-> FALSE, list |-> <<>>],
      fresh |-> FALSE ]

Older == [g \in Gens |-> age[g] + 1]

NoOut == Out("none", "", NoParams, NoTable, <<>>)

\* __init__: seeds the global generator, then reads the configuration and
\* builds the graph; a cyclic graph raises and no object is produced.
Construct(cfg, seed) ==
    LET vs == IF "variables" \in cfg.keys THEN cfg.variables ELSE <<>>
        es == IF "edges" \in cfg.keys THEN cfg.edges ELSE {}
        G == DiGraph(DOMAIN vs, es)
    IN [ built |-> IsDirectedAcyclicGraph(G), seed |-> seed, dag_config |-> cfg,
         variables |-> vs, edges |-> es, graph |-> G,
         topological_order |-> TopologicalSort(G) ]

NewGenerator(g, seed) ==
    /\ ops < MaxOps
    /\ \E e \in Entropy :
          rng' = IF seed.none THEN ReseedEntropy(e) ELSE Reseed(seed.val)
    /\ LET obj == Construct(config, seed)
       IN IF obj.built
          THEN /\ gen' = [gen EXCEPT ![g] = obj]
               /\ out' = [out EXCEPT ![g] = Out("init", "", NoParams, NoTable, <<>>)]
          ELSE /\ gen' = gen
               /\ out' = [out EXCEPT ![g] =
                            Out("init", "The provided graph is not a DAG",
                                NoParams, NoTable, <<>>)]
    /\ age' = IF Construct(config, seed).built THEN [Older EXCEPT ![g] = 0] ELSE Older
    /\ trace' = [trace EXCEPT ![g] = <<>>]
    /\ ops' = ops + 1
    /\ UNCHANGED <<config, sample, cmVars, dispVars, agentVars, wsVars>>

GenerateData(g, p) ==
    /\ ops < MaxOps
    /\ gen[g].built
    /\ LET res == GenerateDataOf(gen[g], p, rng)
       IN /\ rng' = res.rng
          /\ out' = [out EXCEPT ![g] =
                       [ Out("generate_data", res.err, p, res.table, <<>>)
                         EXCEPT !.fresh = (age[g] = 0) ]]
          /\ trace' = [trace EXCEPT ![g] = res.visits]
    /\ age' = Older
    /\ ops' = ops + 1
    /\ UNCHANGED <<config, gen, sample, cmVars, dispVars, agentVars, wsVars>>

\* np.linspace(0.5, 3.0, n) in units of 1/24 (exact for n <= 7).
Linspace(n) ==
    IF n = 1 THEN <<12>>
    ELSE [i \in 1..n |-> 12 + ((i - 1) * 60) \div (n - 1)]

\* The loop of generate_multiple_datasets from the i-th effect (1-based; the
\* code's index is i - 1). With seed None the sum self.seed + i raises.
RECURSIVE MultiLoop(_, _, _, _, _, _)
MultiLoop(g, effects, i, r, base, acc) ==
    IF i > Len(effects) THEN [datasets |-> acc, rng |-> r, err |-> ""]
    ELSE IF g.seed.none THEN [datasets |-> <<>>, rng |-> r, err |-> "TypeError"]
    ELSE LET p == [base EXCEPT !.treatment_effect = effects[i]]
             res == GenerateDataOf(g, p, Reseed(g.seed.val + (i - 1)))
         IN IF res.err # ""
            THEN [datasets |-> <<>>, rng |-> res.rng, err |-> res.err]
            ELSE MultiLoop(g, effects, i + 1, res.rng, base,
                           Append(acc, <<res.table, effects[i]>>))

NoEffects == [given |-> FALSE, list |-> <<>>]
GivenEffects(l) == [given |-> TRUE, list |-> l]

\* args records the call: n_samples and the keyword arguments in a Params
\* record whose treatment_effect field holds n_datasets.
GenerateMultipleDatasets(g, n_datasets, treatment_effects, base) ==
    /\ ops < MaxOps
    /\ gen[g].built
    /\ LET effects == IF treatment_effects.given THEN treatment_effects.list
                      ELSE Linspace(n_datasets)
           res == MultiLoop(gen[g], effects, 1, rng, base, <<>>)
       IN /\ rng' = res.rng
          /\ out' = [out EXCEPT ![g] =
                       [ Out("generate_multiple_datasets", res.err,
                             [base EXCEPT !.treatment_effect = n_datasets],
                             NoTable, res.datasets)
                         EXCEPT !.effects = treatment_effects,
                                !.fresh = (age[g] = 0) ]]
    /\ trace' = [trace EXCEPT ![g] = <<>>]
    /\ age' = Older
    /\ ops' = ops + 1
    /\ UNCHANGED <<config, gen, sample, cmVars, dispVars, agentVars, wsVars>>

\* create_simple_treatment_outcome_dag() with its default names.
SimpleTreatmentOutcomeDag ==
    MkConfig({"X", "T", "Y"}, {<<"X", "T">>, <<"X", "Y">>, <<"T", "Y">>},
             {"variables", "edges"}, "T", "Y", {"X"})

NoSample ==
    [ called |-> FALSE, cfg |-> MkConfig({}, {}, {}, "", "", {}), seed |-> NoneSeed,
      args |-> NoParams, err |-> "", table |-> NoTable ]

\* utils.generate_sample_dataset: a generator of its own, then generate_data
\* with the default noise_std (0.5) and confounder_strength (1.0).
GenerateSampleDataset(n, te, useDefault, k) ==
    /\ ops < MaxOps
    /\ LET cfg == IF useDefault THEN SimpleTreatmentOutcomeDag ELSE config
           obj == Construct(cfg, IntSeed(k))
           p == Params(n, te, 12, 24)
           res == GenerateDataOf(obj, p, Reseed(k))
       IN IF obj.built
          THEN /\ rng' = res.rng
               /\ sample' = [ called |-> TRUE, cfg |-> cfg, seed |-> IntSeed(k),
                              args |-> p, err |-> res.err, table |-> res.table ]
          ELSE /\ rng' = Reseed(k)
               /\ sample' = [ called |-> TRUE, cfg |-> cfg, seed |-> IntSeed(k),
                              args |-> p, err |-> "The provided graph is not a DAG",
                              table |-> NoTable ]
    /\ age' = Older
    /\ ops' = ops + 1
    /\ UNCHANGED <<config, gen, out, trace, cmVars, dispVars, agentVars, wsVars>>


----------------------------------------------------------------------------
(* Tables read from a data file *)

\* The value of column c in row i of the data the tables are cut from.
BaseValue(c, i) ==
    CASE c = "X" -> i
      [] c = "T" -> i % 2
      [] c = "Y" -> 2 * i + (i % 2)
      [] OTHER   -> 1

DataTable(cols, k) ==
    [ none |-> FALSE, columns |-> cols,
      rows |-> [i \in 1..k |-> [c \in cols |-> BaseValue(c, i)]] ]

\* data = None
NoData == [none |-> TRUE, columns |-> {}, rows |-> <<>>]

----------------------------------------------------------------------------
(* CausalModel *)

NoErr == [text |-> "", names |-> {}]
Err(text) == [text |-> text, names |-> {}]

\* Where a configuration comes from: a dictionary, a readable file holding
\* a JSON object, a path without a file, or a file that is not JSON.
DictSource(cfg) == [kind |-> "dict", cfg |-> cfg]
FileSource(cfg) == [kind |-> "file", cfg |-> cfg]
EmptyConfig == MkConfig({}, {}, {}, "", "", {})
MissingFile == [kind |-> "missing", cfg |-> EmptyConfig]
MalformedFile == [kind |-> "malformed", cfg |-> EmptyConfig]

LoadDagConfig(src) ==
    CASE src.kind = "missing" -> [cfg |-> src.cfg, err |-> Err("FileNotFoundError")]
      [] src.kind = "malformed" -> [cfg |-> src.cfg, err |-> Err("JSONDecodeError")]
      [] OTHER -> [cfg |-> src.cfg, err |-> NoErr]

NoGraph == [none |-> TRUE, nodes |-> {}, edges |-> {}]

\* _build_networkx_graph: nodes and edges as configured; a missing top-level
\* key raises KeyError.
BuildNetworkxGraph(cfg) ==
    IF "variables" \notin cfg.keys THEN [graph |-> NoGraph, err |-> Err("KeyError: variables")]
    ELSE IF "edges" \notin cfg.keys THEN [graph |-> NoGraph, err |-> Err("KeyError: edges")]
    ELSE [ graph |-> [ none |-> FALSE,
                       nodes |-> DiGraph(DOMAIN cfg.variables, cfg.edges).nodes,
                       edges |-> cfg.edges ],
           err |-> NoErr ]

NoDowhy ==
    [ none |-> TRUE, data |-> NoData, treatment |-> "", outcome |-> "",
      graph |-> NoGraph, common_causes |-> {} ]

\* What the external library does when asked to build its model: it accepts
\* the graph, or rejects it and accepts the call without a graph, or rejects
\* both.
DowhyOutcomes == {"graph", "fallback", "fail"}

\* _create_dowhy_model on an object with the given fields.
CreateDowhyModel(cfg, data, graph, oracle) ==
    IF data.none
    THEN [model |-> NoDowhy, err |-> Err("Data must be attached before creating DoWhy model")]
    ELSE IF cfg.treatment_variable = "" \/ cfg.outcome_variable = ""
    THEN [model |-> NoDowhy,
          err |-> Err("DAG configuration must specify treatment_variable and outcome_variable")]
    ELSE IF oracle = "fail"
    THEN [model |-> NoDowhy, err |-> Err("DoWhy model creation failed")]
    ELSE [ model |-> [ none |-> FALSE, data |-> data,
                       treatment |-> cfg.treatment_variable,
                       outcome |-> cfg.outcome_variable,
                       graph |-> IF oracle = "graph" THEN graph ELSE NoGraph,
                       common_causes |-> cfg.confounders ],
           err |-> NoErr ]

NoCM ==
    [ exists |-> FALSE, dag_config |-> EmptyConfig, data |-> NoData,
      dowhy_model |-> NoDowhy, graph |-> NoGraph ]

\* CausalModel.__init__: [obj, err]; obj is the object as far as it was
\* initialised, err what was raised ("" if nothing).
CausalModelInit(src, data, oracle) ==
    LET loaded == LoadDagConfig(src)
        built == BuildNetworkxGraph(loaded.cfg)
        base == [ exists |-> TRUE, dag_config |-> loaded.cfg, data |-> data,
                  dowhy_model |-> NoDowhy, graph |-> built.graph ]
        dw == CreateDowhyModel(loaded.cfg, data, built.graph, oracle)
    IN IF loaded.err # NoErr THEN [obj |-> NoCM, err |-> loaded.err]
       ELSE IF built.err # NoErr THEN [obj |-> NoCM, err |-> built.err]
       ELSE IF data.none THEN [obj |-> base, err |-> NoErr]
       ELSE IF dw.err # NoErr THEN [obj |-> NoCM, err |-> dw.err]
       ELSE [obj |-> [base EXCEPT !.dowhy_model = dw.model], err |-> NoErr]

\* Mutant: the difference taken the other way round.
ValidateDataSwapped(cfg, data) ==
    IF data.none THEN NoErr
    ELSE LET missing_vars == data.columns \ DOMAIN cfg.variables
         IN IF missing_vars # {}
            THEN [text |-> "Data is missing required variables", names |-> missing_vars]
            ELSE NoErr

\* _validate_data: the declared variables without a column.
ValidateData(cfg, data) ==
    IF data.none THEN NoErr
    ELSE LET missing_vars == DOMAIN cfg.variables \ data.columns
         IN IF missing_vars # {}
            THEN [text |-> "Data is missing required variables", names |-> missing_vars]
            ELSE NoErr

CmOut(op, err, data) == [op |-> op, err |-> err, data |-> data]

NewCausalModel(src, data, oracle) ==
    /\ ops < MaxOps
    /\ LET res == CausalModelInit(src, data, oracle)
       IN /\ cm' = IF res.err = NoErr THEN res.obj ELSE cm
          /\ cmOut' = CmOut("init", res.err, data)
    /\ ops' = ops + 1
    /\ UNCHANGED <<config, genVars, dispVars, agentVars, wsVars>>

\* attach_data: assigns the table, then validates, then rebuilds the
\* external model.
AttachData(data, oracle) ==
    /\ ops < MaxOps
    /\ cm.exists
    /\ LET v == ValidateData(cm.dag_config, data)
           dw == CreateDowhyModel(cm.dag_config, data, cm.graph, oracle)
       IN /\ cm' = IF v # NoErr \/ dw.err # NoErr
                   THEN [cm EXCEPT !.data = data]
                   ELSE [cm EXCEPT !.data = data, !.dowhy_model = dw.model]
          /\ cmOut' = CmOut("attach_data", IF v # NoErr THEN v ELSE dw.err, data)
    /\ ops' = ops + 1
    /\ UNCHANGED <<config, genVars, dispVars, agentVars, wsVars>>

----------------------------------------------------------------------------
(* Numbers: exact stand-ins for the floats of pandas and numpy *)

Abs(x) == IF x < 0 THEN -x ELSE x

RECURSIVE Gcd(_, _)
Gcd(a, b) == IF b = 0 THEN a ELSE Gcd(b, a % b)

\* The rational n/d in lowest terms with a positive denominator (d # 0).
Rat(n, d) ==
    LET g == Gcd(Abs(n), Abs(d))
    IN IF d < 0 THEN <<(-n) \div g, (-d) \div g>> ELSE <<n \div g, d \div g>>

RatAdd(a, b) == Rat(a[1] * b[2] + b[1] * a[2], a[2] * b[2])
RatMul(a, b) == Rat(a[1] * b[1], a[2] * b[2])
RatLess(a, b) == a[1] * b[2] < b[1] * a[2]

\* A float: NaN, or a sum of rational multiples of square roots of
\* square-free integers (terms: radicand -> non-zero coefficient).
NaN == [nan |-> TRUE, terms |-> [x \in {} |-> <<0, 1>>]]
Zero == [nan |-> FALSE, terms |-> [x \in {} |-> <<0, 1>>]]
Surd(r, m) == IF r[1] = 0 THEN Zero ELSE [nan |-> FALSE, terms |-> [x \in {m} |-> r]]
Num(r) == Surd(r, 1)
Int2Num(k) == Num(Rat(k, 1))
IsNaN(a) == a.nan

Coef(a, m) == IF m \in DOMAIN a.terms THEN a.terms[m] ELSE <<0, 1>>

Add(a, b) ==
    IF a.nan \/ b.nan THEN NaN
    ELSE LET D == DOMAIN a.terms \cup DOMAIN b.terms
             keep == { m \in D : RatAdd(Coef(a, m), Coef(b, m))[1] # 0 }
         IN [nan |-> FALSE, terms |-> [m \in keep |-> RatAdd(Coef(a, m), Coef(b, m))]]

\* The product of a rational-valued float and a float.
Scale(r, a) ==
    IF a.nan THEN NaN
    ELSE IF r[1] = 0 THEN Zero
    ELSE [nan |-> FALSE, terms |-> [m \in DOMAIN a.terms |-> RatMul(r, a.terms[m])]]

Sub(a, b) == Add(a, Scale(<<-1, 1>>, b))

\* abs(a)^2 for a float with at most one term.
AbsSquare(a) ==
    IF a.terms = Zero.terms THEN <<0, 1>>
    ELSE LET m == CHOOSE x \in DOMAIN a.terms : TRUE
         IN RatMul(RatMul(a.terms[m], a.terms[m]), <<m, 1>>)

\* abs(a) > abs(b); a comparison with NaN is False.
AbsGreater(a, b) == ~a.nan /\ ~b.nan /\ RatLess(AbsSquare(b), AbsSquare(a))

RECURSIVE SumSeq(_)
SumSeq(xs) == IF xs = <<>> THEN 0 ELSE Head(xs) + SumSeq(Tail(xs))

\* Series.mean(): NaN for an empty series.
Mean(xs) == IF Len(xs) = 0 THEN NaN ELSE Num(Rat(SumSeq(xs), Len(xs)))

\* The rational behind a rational-valued float.
AsRat(a) == Coef(a, 1)

\* n*sum(x*y) - sum(x)*sum(y)
CoMoment(xs, ys) ==
    Len(xs) * SumSeq([i \in 1..Len(xs) |-> xs[i] * ys[i]]) - SumSeq(xs) * SumSeq(ys)

RECURSIVE LargestSquare(_, _, _)
LargestSquare(D, k, best) ==
    IF k * k > D THEN best
    ELSE LargestSquare(D, k + 1, IF D % (k * k) = 0 THEN k ELSE best)

\* Series.corr(): Pearson's r = Sxy / sqrt(Sxx * Syy); NaN with fewer than
\* two rows or a constant column.
Corr(xs, ys) ==
    LET Sxx == CoMoment(xs, xs)
        Syy == CoMoment(ys, ys)
        Sxy == CoMoment(xs, ys)
        k == LargestSquare(Sxx * Syy, 1, 1)
        m == (Sxx * Syy) \div (k * k)
    IN IF Len(xs) < 2 \/ Sxx = 0 \/ Syy = 0 THEN NaN
       ELSE Surd(Rat(Sxy, k * m), m)

\* float(x) if not np.isnan(x) else 0.0
NanToZero(a) == IF IsNaN(a) THEN Zero ELSE a

----------------------------------------------------------------------------
(* dispatch_query and its handlers *)

Has(q, k) == k \in DOMAIN q

EmptyDict == [x \in {} |-> 0]

\* The first of the keys, in the order the code reads them, that q lacks.
RECURSIVE FirstMissing(_, _)
FirstMissing(q, keys) ==
    IF keys = <<>> THEN ""
    ELSE IF ~Has(q, Head(keys)) THEN Head(keys)
    ELSE FirstMissing(q, Tail(keys))

KeyErr(k) == [text |-> "KeyError", names |-> {k}]

PyNone == "<None>"
Str(x) == IF x = PyNone THEN "None" ELSE x

Column_(data, c) == [i \in 1..Len(data.rows) |-> data.rows[i][c]]

Returned(value) == [called |-> TRUE, raised |-> FALSE, value |-> value]
NoResult == [called |-> FALSE, raised |-> FALSE, value |-> <<>>]

\* Mutant: the handler's except clause loses the handler's tag.
HandlerExceptUntagged(tag, e) ==
    Returned([success |-> FALSE, query_type |-> "unknown", error |-> e])

\* The except clause of a handler.
HandlerExcept(tag, e) ==
    Returned([success |-> FALSE, query_type |-> tag, error |-> e])

\* Where the data comes from: a path without a readable file, or a CSV file.
MissingData == [kind |-> "missing", table |-> NoData]
CsvFile(t) == [kind |-> "csv", table |-> t]

\* Mutant: the table read by the previous call is kept and used again.
ReadCsvCached(ds) ==
    IF result.called /\ req.data.kind = "csv" THEN [data |-> req.data.table, err |-> NoErr]
    ELSE IF ds.kind = "missing" THEN [data |-> NoData, err |-> Err("FileNotFoundError")]
    ELSE [data |-> ds.table, err |-> NoErr]

ReadCsv(ds) ==
    IF ds.kind = "missing" THEN [data |-> NoData, err |-> Err("FileNotFoundError")]
    ELSE [data |-> ds.table, err |-> NoErr]

Methods == <<"backdoor.linear_regression", "backdoor.propensity_score_stratification">>

\* Mutant: the band is taken from the signed estimate.
ConfidenceIntervalSigned(e) ==
    << Num(RatAdd(e, RatMul(<<-49, 250>>, e))),
       Num(RatAdd(e, RatMul(<<49, 250>>, e))) >>

\* estimate +/- 1.96 * abs(estimate) * 0.1
ConfidenceInterval(e) ==
    << Num(RatAdd(e, RatMul(<<-49, 250>>, <<Abs(e[1]), e[2]>>))),
       Num(RatAdd(e, RatMul(<<49, 250>>, <<Abs(e[1]), e[2]>>))) >>

\* Mutant: the last successful estimate is reported as primary.
LastEstimate(estimates) ==
    LET ok == { i \in 1..Len(estimates) : Has(estimates[i], "estimate") }
    IN IF ok = {} THEN 0 ELSE CHOOSE i \in ok : \A j \in ok : j <= i

\* next((e for e in estimates if "estimate" in e), None): the index of the
\* first entry with an estimate, 0 for None.
PrimaryEstimate(estimates) ==
    LET ok == { i \in 1..Len(estimates) : Has(estimates[i], "estimate") }
    IN IF ok = {} THEN 0 ELSE CHOOSE i \in ok : \A j \in ok : i <= j

\* o.identify and o.est say what the external library answers.
\* identify_effect / estimate_effect: the pair of variables the external
\* model answers for, fixed when that model was created.
Estimand(model) == <<model.dowhy_model.treatment, model.dowhy_model.outcome>>

HandleEffectEstimation(q, model, o) ==
    LET tag == "effect_estimation"
        missing == FirstMissing(q, <<"treatment_variable", "outcome_variable">>)
        estimates ==
            [ i \in 1..Len(Methods) |->
                IF o.est[i].fail
                THEN [method |-> Methods[i], error |-> Err("estimation failed")]
                ELSE [ method |-> Methods[i], estimate |-> Int2Num(o.est[i].value),
                       confidence_interval |-> ConfidenceInterval(Rat(o.est[i].value, 1)) ] ]
        first == PrimaryEstimate(estimates)
    IN IF missing # "" THEN HandlerExcept(tag, KeyErr(missing))
       ELSE IF model.dowhy_model.none
       THEN HandlerExcept(tag, Err("DoWhy model not created. Attach data first."))
       ELSE IF o.identify = "fail" THEN HandlerExcept(tag, Err("identification failed"))
       ELSE IF first # 0
       THEN Returned([ success |-> TRUE, query_type |-> tag,
                       treatment_variable |-> q.treatment_variable,
                       outcome_variable |-> q.outcome_variable,
                       estimate |-> estimates[first].estimate,
                       confidence_interval |-> estimates[first].confidence_interval,
                       all_estimates |-> estimates,
                       summary |-> [ text |-> "Estimated causal effect",
                                     names |-> {q.treatment_variable, q.outcome_variable} ] ])
       ELSE Returned([ success |-> FALSE, query_type |-> tag,
                       error |-> Err("All estimation methods failed"),
                       failed_estimates |-> estimates ])

\* max(keys, key=...): the first key no later key beats.
RECURSIVE ArgMaxAbs(_, _, _)
ArgMaxAbs(keys, f, best) ==
    IF keys = <<>> THEN best
    ELSE ArgMaxAbs(Tail(keys), f,
                   IF AbsGreater(f[Head(keys)], f[best]) THEN Head(keys) ELSE best)

\* The keys of a dict filled in the order of `names`, without repeats.
RECURSIVE DictKeys(_, _)
DictKeys(names, seen) ==
    IF names = <<>> THEN <<>>
    ELSE IF Head(names) \in seen THEN DictKeys(Tail(names), seen)
    ELSE <<Head(names)>> \o DictKeys(Tail(names), seen \cup {Head(names)})

InColumns(names, data) == SelectSeq(names, LAMBDA c : c \in data.columns)

SubSeqOf(xs, idx) == SelectSeq([i \in 1..Len(xs) |-> <<i, xs[i]>>], LAMBDA e : e[1] \in idx)
Pick(xs, idx) == [i \in 1..Len(SubSeqOf(xs, idx)) |-> SubSeqOf(xs, idx)[i][2]]

\* Mutant: a value equal to the threshold counts as an anomaly.
IsAnomalyInclusive(value, threshold) == value >= threshold

\* outcome_values > anomaly_threshold
IsAnomaly(value, threshold) == value > threshold

HandleAnomalyAttribution(q, model) ==
    LET tag == "anomaly_attribution"
        missing == FirstMissing(q, <<"outcome_variable", "anomaly_threshold", "potential_causes">>)
        data == model.data
        outcome_values == Column_(data, q.outcome_variable)
        all == 1..Len(data.rows)
        anomalies == { i \in all : IsAnomaly(outcome_values[i], q.anomaly_threshold) }
        causes == DictKeys(InColumns(q.potential_causes, data), {})
        score(c) ==
            LET correlation == Corr(Column_(data, c), outcome_values)
                normal_mean == Mean(Pick(Column_(data, c), all \ anomalies))
                anomaly_mean == Mean(Pick(Column_(data, c), anomalies))
            IN [ correlation |-> NanToZero(correlation),
                 normal_mean |-> NanToZero(normal_mean),
                 anomaly_mean |-> NanToZero(anomaly_mean),
                 difference |-> NanToZero(Sub(anomaly_mean, normal_mean)) ]
        attribution_scores == [c \in { causes[i] : i \in 1..Len(causes) } |-> score(c)]
        corrs == [c \in DOMAIN attribution_scores |-> attribution_scores[c].correlation]
    IN IF missing # "" THEN HandlerExcept(tag, KeyErr(missing))
       ELSE IF q.outcome_variable \notin data.columns
       THEN HandlerExcept(tag, KeyErr(q.outcome_variable))
       ELSE IF anomalies = {}
       THEN Returned([ success |-> TRUE, query_type |-> tag,
                       outcome_variable |-> q.outcome_variable,
                       anomalies_found |-> 0,
                       attribution_scores |-> EmptyDict,
                       summary |-> [text |-> "No anomalies found above threshold", names |-> {}] ])
       ELSE IF causes = <<>>
       THEN HandlerExcept(tag, Err("max() arg is an empty sequence"))
       ELSE Returned([ success |-> TRUE, query_type |-> tag,
                       outcome_variable |-> q.outcome_variable,
                       anomaly_threshold |-> q.anomaly_threshold,
                       anomalies_found |-> Cardinality(anomalies),
                       attribution_scores |-> attribution_scores,
                       summary |-> [ text |-> "Found anomalies. Top contributor",
                                     names |-> {ArgMaxAbs(Tail(causes), corrs, Head(causes))} ] ])

\* Mutant: the middle row of an odd table goes to the baseline.
BaselineRowsCeil(n) == 1..((n + 1) \div 2)

\* data.iloc[:len(data)//2]
BaselineRows(n) == 1..(n \div 2)

HandleDistributionShiftAttribution(q, model) ==
    LET tag == "distribution_shift_attribution"
        missing == FirstMissing(q, <<"target_variable", "baseline_period",
                                     "comparison_period", "potential_drivers">>)
        data == model.data
        n == Len(data.rows)
        baseline == BaselineRows(n)
        comparison == (n \div 2 + 1)..n
        target == Column_(data, q.target_variable)
        baseline_mean == Mean(Pick(target, baseline))
        comparison_mean == Mean(Pick(target, comparison))
        shift_magnitude == Sub(comparison_mean, baseline_mean)
        drivers == DictKeys(InColumns(q.potential_drivers, data), {})
        entry(d) ==
            LET baseline_driver_mean == Mean(Pick(Column_(data, d), baseline))
                comparison_driver_mean == Mean(Pick(Column_(data, d), comparison))
                driver_shift == Sub(comparison_driver_mean, baseline_driver_mean)
                correlation == Corr(Column_(data, d), target)
                contribution == IF IsNaN(correlation) THEN Zero
                                ELSE IF IsNaN(driver_shift) THEN NaN
                                ELSE Scale(AsRat(driver_shift), correlation)
            IN [ baseline_mean |-> baseline_driver_mean,
                 comparison_mean |-> comparison_driver_mean,
                 shift |-> driver_shift,
                 correlation_with_target |-> NanToZero(correlation),
                 estimated_contribution |-> contribution ]
        driver_contributions == [d \in { drivers[i] : i \in 1..Len(drivers) } |-> entry(d)]
        contribs == [d \in DOMAIN driver_contributions |->
                        driver_contributions[d].estimated_contribution]
    IN IF missing # "" THEN HandlerExcept(tag, KeyErr(missing))
       ELSE IF q.target_variable \notin data.columns
       THEN HandlerExcept(tag, KeyErr(q.target_variable))
       ELSE IF drivers = <<>>
       THEN HandlerExcept(tag, Err("max() arg is an empty sequence"))
       ELSE Returned([ success |-> TRUE, query_type |-> tag,
                       target_variable |-> q.target_variable,
                       baseline_mean |-> baseline_mean,
                       comparison_mean |-> comparison_mean,
                       shift_magnitude |-> shift_magnitude,
                       driver_contributions |-> driver_contributions,
                       summary |-> [ text |-> "Distribution shift. Main driver",
                                     names |-> {ArgMaxAbs(Tail(drivers), contribs, Head(drivers))} ] ])

HandleIntervention(q, model) ==
    LET tag == "intervention"
        missing == FirstMissing(q, <<"intervention_variable", "intervention_value",
                                     "outcome_variables">>)
        data == model.data
        iv == q.intervention_variable
        outcomes == DictKeys(InColumns(q.outcome_variables, data), {})
        original(y) == Mean(Column_(data, y))
        intervened(y) ==
            IF iv \in data.columns
            THEN LET correlation == Corr(Column_(data, iv), Column_(data, y))
                     original_intervention_mean == Mean(Column_(data, iv))
                     intervention_effect ==
                        Scale(AsRat(Sub(Int2Num(q.intervention_value),
                                        original_intervention_mean)), correlation)
                 IN IF ~IsNaN(correlation)
                    THEN IF IsNaN(original_intervention_mean) THEN NaN
                         ELSE Add(original(y), intervention_effect)
                    ELSE original(y)
            ELSE original(y)
        intervention_effects ==
            [ y \in { outcomes[i] : i \in 1..Len(outcomes) } |->
                [ original_value |-> original(y),
                  intervened_value |-> intervened(y),
                  effect |-> Sub(intervened(y), original(y)) ] ]
    IN IF missing # "" THEN HandlerExcept(tag, KeyErr(missing))
       ELSE Returned([ success |-> TRUE, query_type |-> tag,
                       intervention_variable |-> iv,
                       intervention_value |-> q.intervention_value,
                       intervention_effects |-> intervention_effects,
                       summary |-> [ text |-> "Intervening affects outcomes",
                                     names |-> DOMAIN intervention_effects ] ])

\* One pass of the factual filter: the rows (indices into data.rows) within
\* one standard deviation (ddof = 1, over the rows still kept) of the value.
FilterStep(data, kept, var, value) ==
    LET xs == Pick(Column_(data, var), kept)
        n == Len(xs)
        Sxx == CoMoment(xs, xs)
    IN IF n < 2 THEN {}
       ELSE { i \in kept :
                (data.rows[i][var] - value) * (data.rows[i][var] - value) * n * (n - 1) <= Sxx }

\* scenario: the items of the dict in insertion order, <<variable, value>>.
RECURSIVE FilterAll(_, _, _)
FilterAll(data, kept, scenario) ==
    IF scenario = <<>> THEN kept
    ELSE LET var == Head(scenario)[1]
             value == Head(scenario)[2]
         IN FilterAll(data,
                      IF var \in data.columns THEN FilterStep(data, kept, var, value) ELSE kept,
                      Tail(scenario))

\* The rows kept after each pass of the loop, the first pass first.
RECURSIVE FilterSteps(_, _, _)
FilterSteps(data, kept, scenario) ==
    IF scenario = <<>> THEN <<>>
    ELSE LET var == Head(scenario)[1]
             value == Head(scenario)[2]
             next == IF var \in data.columns THEN FilterStep(data, kept, var, value) ELSE kept
         IN <<next>> \o FilterSteps(data, next, Tail(scenario))

ScenarioVars(sc) == { sc[i][1] : i \in 1..Len(sc) }
ScenarioValue(sc, v) == (CHOOSE e \in { sc[i] : i \in 1..Len(sc) } : e[1] = v)[2]

RECURSIVE Adjustment(_, _, _, _)
Adjustment(data, q, items, acc) ==
    IF items = <<>> THEN acc
    ELSE LET var == Head(items)[1]
             cf_value == Head(items)[2]
             correlation == Corr(Column_(data, var), Column_(data, q.outcome_variable))
             used == /\ var \in data.columns
                     /\ var \in ScenarioVars(q.factual_scenario)
                     /\ ~IsNaN(correlation)
         IN Adjustment(data, q, Tail(items),
                IF used
                THEN Add(acc, Scale(Rat(cf_value - ScenarioValue(q.factual_scenario, var), 1),
                                    correlation))
                ELSE acc)

HandleCounterfactual(q, model) ==
    LET tag == "counterfactual"
        missing == FirstMissing(q, <<"factual_scenario", "counterfactual_scenario",
                                     "outcome_variable">>)
        data == model.data
        filtered == FilterAll(data, 1..Len(data.rows), q.factual_scenario)
        used == IF filtered = {} THEN 1..Len(data.rows) ELSE filtered
        factual_outcome == Mean(Pick(Column_(data, q.outcome_variable), used))
        counterfactual_adjustment == Adjustment(data, q, q.counterfactual_scenario, Zero)
        counterfactual_outcome == Add(factual_outcome, counterfactual_adjustment)
    IN IF missing # "" THEN HandlerExcept(tag, KeyErr(missing))
       ELSE IF q.outcome_variable \notin data.columns
       THEN HandlerExcept(tag, KeyErr(q.outcome_variable))
       ELSE Returned([ success |-> TRUE, query_type |-> tag,
                       factual_scenario |-> q.factual_scenario,
                       counterfactual_scenario |-> q.counterfactual_scenario,
                       outcome_variable |-> q.outcome_variable,
                       factual_outcome |-> factual_outcome,
                       counterfactual_outcome |-> counterfactual_outcome,
                       counterfactual_effect |-> Sub(counterfactual_outcome, factual_outcome),
                       summary |-> [ text |-> "Counterfactual effect",
                                     names |-> {q.outcome_variable} ] ])

\* The except clause of dispatch_query.
OuterExcept(q, e) ==
    Returned([ success |-> FALSE, error |-> e,
               query_type |-> IF Has(q, "query_type") THEN q.query_type ELSE "unknown" ])

\* Mutant: the unknown-type branch answers like a successful handler.
UnknownQueryTypeAccepted(query_type) ==
    Returned([ success |-> TRUE, query_type |-> query_type,
               summary |-> [text |-> "Unknown query type", names |-> {Str(query_type)}] ])

\* The else branch of the dispatch.
UnknownQueryType(query_type) ==
    Returned([ success |-> FALSE,
               error |-> [text |-> "Unknown query type", names |-> {Str(query_type)}],
               query_type |-> query_type ])

DispatchQuery(q, dag, ds, o) ==
    LET csv == ReadCsv(ds)
        model == CausalModelInit(dag, csv.data, o.create)
        query_type == IF Has(q, "query_type") THEN q.query_type ELSE PyNone
    IN IF csv.err # NoErr THEN OuterExcept(q, csv.err)
       ELSE IF model.err # NoErr THEN OuterExcept(q, model.err)
       ELSE CASE query_type = "effect_estimation" ->
                    HandleEffectEstimation(q, model.obj, o)
              [] query_type = "anomaly_attribution" ->
                    HandleAnomalyAttribution(q, model.obj)
              [] query_type = "distribution_shift_attribution" ->
                    HandleDistributionShiftAttribution(q, model.obj)
              [] query_type = "intervention" ->
                    HandleIntervention(q, model.obj)
              [] query_type = "counterfactual" ->
                    HandleCounterfactual(q, model.obj)
              [] OTHER -> UnknownQueryType(query_type)

Dispatch ==
    /\ ~result.called
    /\ result' = DispatchQuery(req.query, req.dag, req.data, req.oracle)
    /\ UNCHANGED <<config, genVars, ops, cmVars, req, calls, agentVars, wsVars>>

\* One of several dispatch_query calls of a process; the library answers
\* as req.oracle says, in every call.
DispatchCall(q, dag, ds) ==
    /\ ops < MaxOps
    /\ LET res == DispatchQuery(q, dag, ds, req.oracle)
       IN /\ result' = res
          /\ calls' = Append(calls, [ query |-> q, dag |-> dag, data |-> ds,
                                      value |-> res.value, rng |-> rng ])
    /\ req' = [req EXCEPT !.query = q, !.dag = dag, !.data = ds]
    /\ ops' = ops + 1
    /\ UNCHANGED <<config, genVars, cmVars, agentVars, wsVars>>

----------------------------------------------------------------------------
(* Inputs *)

TreatmentEffects == {24, 48}
NoiseStds == {12}
ConfounderStrengths == {24}

ParamSet ==
    { Params(n, te, ns, cs) : n \in 1..MaxSamples, te \in TreatmentEffects,
                              ns \in NoiseStds, cs \in ConfounderStrengths }

EffectLists == { GivenEffects(<<>>), GivenEffects(<<36, 24>>) }

\* Configurations of the generator specification.
StandardConfig ==
    MkConfig({"X", "T", "Y"}, {<<"X", "T">>, <<"X", "Y">>, <<"T", "Y">>},
             AllKeys, "T", "Y", {"X"})

GenConfigs ==
    { StandardConfig,
      MkConfig(Names, {<<"X", "T">>, <<"T", "Y">>, <<"T", "Z">>},
               AllKeys, "T", "Y", {"X"}) }

----------------------------------------------------------------------------
(* CausalAnalysisAgent: the conversational workflow (backend/causal_agent.py) *)

\* WorkflowState, in declaration order (COMPLETED is never assigned).
WorkflowStates ==
    << "initial", "dag_proposed", "eda_completed", "analysis_plan_proposed",
       "causal_analysis_completed", "completed" >>

StateRank(s) == CHOOSE i \in 1..Len(WorkflowStates) : WorkflowStates[i] = s

\* Messages are sequences of characters.
UpperToLower ==
    [ c \in {"Y", "E", "S", "N", "O", "K", "T"} |->
        CASE c = "Y" -> "y" [] c = "E" -> "e" [] c = "S" -> "s" [] c = "N" -> "n"
          [] c = "O" -> "o" [] c = "K" -> "k" [] c = "T" -> "t" ]

\* str.lower()
Lower(s) == [i \in 1..Len(s) |-> IF s[i] \in DOMAIN UpperToLower THEN UpperToLower[s[i]] ELSE s[i]]

\* word in text
Contains(text, word) ==
    \E i \in 1..(Len(text) - Len(word) + 1) : SubSeq(text, i, i + Len(word) - 1) = word

ApprovalWords ==
    { <<"y", "e", "s">>, <<"p", "r", "o", "c", "e", "e", "d">>,
      <<"c", "o", "r", "r", "e", "c", "t">>,
      <<"l", "o", "o", "k", "s", " ", "g", "o", "o", "d">>, <<"o", "k">> }

\* any(word in feedback.lower() for word in [...])
Approves(feedback) == \E word \in ApprovalWords : Contains(Lower(feedback), word)

NoProposal ==
    [ none |-> TRUE, dag_file |-> "", data_file |-> "", treatment_variable |-> "",
      outcome_variable |-> "", query_type |-> "", confidence_ok |-> TRUE ]

NoPlan ==
    [ none |-> TRUE, query_type |-> "", treatment_variable |-> "",
      outcome_variable |-> "", confounders |-> <<>> ]

NoResults == [none |-> TRUE, value |-> <<>>]

\* The fields __init__ sets; reset() assigns the same values.
NewAgent ==
    [ state |-> "initial", conversation_history |-> <<>>,
      current_dag_proposal |-> NoProposal, current_analysis_plan |-> NoPlan,
      eda_results |-> NoResults, causal_results |-> NoResults ]

\* Mutant: reset() leaves the proposal in place.
ResetKeepsProposal(a) == [NewAgent EXCEPT !.current_dag_proposal = a.current_dag_proposal]

\* reset()
ResetAgent(a) == NewAgent

\* What a handler hands back: the agent's fields, the response (or the
\* exception that escaped), and the dispatch_query calls it made.
Handled(a, response) == [agent |-> a, response |-> response, raised |-> "", call |-> <<>>]
Escaped(a, e) == [agent |-> a, response |-> "", raised |-> e, call |-> <<>>]

\* The language model's reply to a proposal prompt: text without a JSON
\* object of the seven fields, or such an object.
Unparseable == [json |-> FALSE, proposal |-> NoProposal]
ProposalJson(p) == [json |-> TRUE, proposal |-> p]

\* The files on disk.
DagOnDisk(path) == IF path = "dag.json" THEN FileSource(StandardConfig) ELSE MissingFile
DataOnDisk(path) ==
    IF path = "data.csv" THEN CsvFile(DataTable({"X", "T", "Y"}, MaxRows)) ELSE MissingData
PathExists(path) == path \in {"dag.json", "data.csv"}

RECURSIVE ListOf(_)
ListOf(S) == IF S = {} THEN <<>> ELSE LET x == CHOOSE y \in S : TRUE IN <<x>> \o ListOf(S \ {x})

\* _handle_initial_question: the proposal and the state are assigned before
\* the response is formatted; a confidence that is not a number fails there.
HandleInitialQuestion(a, llm) ==
    IF ~llm.json THEN Handled(a, "rephrase")
    ELSE LET b == [a EXCEPT !.current_dag_proposal = llm.proposal, !.state = "dag_proposed"]
         IN Handled(b, IF llm.proposal.confidence_ok THEN "proposal" ELSE "rephrase")

\* _interpret_eda_and_propose_plan
InterpretEdaAndProposePlan(a) ==
    LET p == a.current_dag_proposal
        dag == DagOnDisk(p.dag_file)
        plan == [ none |-> FALSE, query_type |-> p.query_type,
                  treatment_variable |-> p.treatment_variable,
                  outcome_variable |-> p.outcome_variable,
                  confounders |-> IF dag.kind = "file" THEN ListOf(dag.cfg.confounders)
                                  ELSE <<>> ]
    IN Handled([a EXCEPT !.current_analysis_plan = plan,
                         !.state = "analysis_plan_proposed"], "plan")

\* _run_eda; eda is what happens on disk: "raises" (CausalEDA or
\* run_full_analysis raises), "unreadable" (reading the report raises),
\* "ok".
EdaOutcomes == {"ok", "raises", "unreadable"}

RunEda(a, eda) ==
    LET p == a.current_dag_proposal
        done == [a EXCEPT !.eda_results = [none |-> FALSE, value |-> <<"eda">>],
                          !.state = "eda_completed"]
    IN IF ~PathExists(p.dag_file) THEN Handled(a, "dag_not_found")
       ELSE IF ~PathExists(p.data_file) THEN Handled(a, "data_not_found")
       ELSE IF eda = "raises" THEN Handled(a, "eda_error")
       ELSE IF eda = "unreadable" THEN Handled(done, "eda_error")
       ELSE InterpretEdaAndProposePlan(done)

\* _handle_dag_feedback
HandleDagFeedback(a, feedback, llm, eda) ==
    IF Approves(feedback) THEN RunEda(a, eda)
    ELSE IF ~llm.json THEN Handled(a, "be_more_specific")
    ELSE Handled([a EXCEPT !.current_dag_proposal = llm.proposal],
                 IF llm.proposal.confidence_ok THEN "updated_proposal"
                 ELSE "be_more_specific")

\* The dispatch_query call _run_causal_analysis makes from the agent's
\* fields, with what it returns; o is what the estimation library answers.
CausalAnalysisCall(a, o) ==
    LET plan == a.current_analysis_plan
        base == [ query_type |-> plan.query_type,
                  treatment_variable |-> plan.treatment_variable,
                  outcome_variable |-> plan.outcome_variable,
                  confounders |-> plan.confounders ]
        query_dict == IF plan.query_type = "effect_estimation"
                      THEN base @@ [treatment_value |-> 1] ELSE base
        dag == DagOnDisk(a.current_dag_proposal.dag_file)
        data == DataOnDisk(a.current_dag_proposal.data_file)
    IN [ query |-> query_dict, dag |-> dag, data |-> data,
         value |-> DispatchQuery(query_dict, dag, data, o).value, rng |-> rng ]

\* Mutant: a missing plan does not stop the call.
RunCausalAnalysisWithoutPlan(a, call) ==
    [ Handled([a EXCEPT !.causal_results = [none |-> FALSE, value |-> call.value],
                        !.state = "causal_analysis_completed"], "results")
      EXCEPT !.call = <<call>> ]

\* _run_causal_analysis; without a plan, building the query raises inside
\* the try, before the call.
RunCausalAnalysis(a, call) ==
    IF a.current_analysis_plan.none THEN Handled(a, "analysis_error")
    ELSE [ Handled([a EXCEPT !.causal_results = [none |-> FALSE, value |-> call.value],
                             !.state = "causal_analysis_completed"], "results")
           EXCEPT !.call = <<call>> ]

\* _handle_analysis_plan_feedback (and _handle_eda_review, which forwards to
\* it): the reply to a message that does not approve reads the plan's fields.
HandleAnalysisPlanFeedback(a, feedback, call) ==
    IF Approves(feedback) THEN RunCausalAnalysis(a, call)
    ELSE IF a.current_analysis_plan.none
    THEN Escaped(a, "AttributeError: 'NoneType' object has no attribute 'query_type'")
    ELSE Handled(a, "plan_modify")

\* _handle_final_discussion
HandleFinalDiscussion(a) == Handled(a, "discussion")

UserEntry(question) == [role |-> "user", content |-> question]
AssistantEntry(response) == [role |-> "assistant", content |-> <<response>>]

\* process_user_question
ProcessUserQuestionOf(a0, question, llm, eda, call) ==
    LET a == [a0 EXCEPT !.conversation_history = Append(@, UserEntry(question))]
        h == CASE a.state = "initial" -> HandleInitialQuestion(a, llm)
               [] a.state = "dag_proposed" -> HandleDagFeedback(a, question, llm, eda)
               [] a.state = "eda_completed" -> HandleAnalysisPlanFeedback(a, question, call)
               [] a.state = "analysis_plan_proposed" ->
                     HandleAnalysisPlanFeedback(a, question, call)
               [] a.state = "causal_analysis_completed" -> HandleFinalDiscussion(a)
               [] OTHER -> Handled(a, "unsure")
    IN IF h.raised # "" THEN h
       ELSE [h EXCEPT !.agent.conversation_history = Append(@, AssistantEntry(h.response))]

NoReply == [called |-> FALSE, question |-> <<>>, response |-> "", raised |-> ""]

ProcessUserQuestion(question, llm, eda, o) ==
    /\ ops < MaxTurns
    /\ \E call \in {CausalAnalysisCall(agent, o)} :
       \E h \in {ProcessUserQuestionOf(agent, question, llm, eda, call)} :
          /\ agent' = h.agent
          /\ reply' = [ called |-> TRUE, question |-> question,
                        response |-> h.response, raised |-> h.raised ]
          /\ calls' = calls \o h.call
    /\ ops' = ops + 1
    /\ UNCHANGED <<config, genVars, cmVars, req, result, wsVars>>

Reset ==
    /\ ops < MaxTurns
    /\ agent' = ResetAgent(agent)
    /\ ops' = ops + 1
    /\ UNCHANGED <<config, genVars, cmVars, dispVars, reply, wsVars>>

----------------------------------------------------------------------------
(* The prompt/response callback of the cloud functions (local-cloud/lambdas) *)

NoToken == 0

Responders == {"r1", "r2"}

NoContext == [present |-> FALSE, pendingTaskToken |-> NoToken, timedOut |-> FALSE]

\* The item of the session in the sessions table: its top-level attributes
\* and the map stored under the attribute `context`.
NoItem ==
    [ exists |-> FALSE, userId |-> FALSE, pendingTaskToken |-> NoToken,
      context |-> NoContext ]

\* Mutant: the handler reads the attribute inside the context map.
PendingTaskTokenInContext(session_info) == session_info.context.pendingTaskToken

\* session_info.get('pendingTaskToken')
PendingTaskToken(session_info) == session_info.pendingTaskToken

Idle == [pc |-> "idle", session_info |-> NoItem, task_token |-> NoToken,
         statusCode |-> 0, error |-> ""]

\* handle_query: put_item replaces the whole item of the session.
HandleQuery ==
    /\ session' = [NoItem EXCEPT !.exists = TRUE, !.userId = TRUE]
    /\ UNCHANGED <<config, genVars, ops, cmVars, dispVars, agentVars, handler, sfn>>

\* append-tool-output: SET #ctx = :context writes the map it read back,
\* creating the attribute (and the item) when it is not there.
AppendToolOutput ==
    /\ session' = [session EXCEPT !.exists = TRUE, !.context.present = TRUE]
    /\ UNCHANGED <<config, genVars, ops, cmVars, dispVars, agentVars, handler, sfn>>

\* send-prompt, entered with the task token Step Functions issued for this
\* wait. SET #ctx.pendingTaskToken is rejected when the item has no context
\* map; every failure is reported with send_task_failure.
SendPrompt(connections) ==
    /\ sfn.issued < MaxTokens
    /\ LET task_token == sfn.issued + 1
           stored == session.userId /\ connections /\ session.context.present
       IN /\ session' = IF stored
                        THEN [session EXCEPT !.context.pendingTaskToken = task_token]
                        ELSE session
          /\ sfn' = [sfn EXCEPT !.issued = task_token,
                                !.failure = IF stored THEN @ ELSE Append(@, task_token)]
    /\ UNCHANGED <<config, genVars, ops, cmVars, dispVars, agentVars, handler>>

\* handle_user_response, one step of the invocation r is in: the checks
\* and the read of the session (get_item) up to the test of the token; then
\* stepfunctions.send_task_success(taskToken=task_token, ...); then
\* update_item REMOVE pendingTaskToken, pendingPrompt and the
\* response_received message. Other invocations and handlers run between
\* the steps.
HandleUserResponse(r, hasSessionId) ==
    LET h == [Idle EXCEPT !.session_info = IF hasSessionId THEN session ELSE NoItem]
        task_token == PendingTaskToken(session)
    IN CASE handler[r].pc \in {"idle", "done"} ->
               /\ ops < MaxResponses
               /\ ops' = ops + 1
               /\ handler' = [handler EXCEPT ![r] =
                     IF ~hasSessionId
                     THEN [h EXCEPT !.pc = "done", !.statusCode = 400,
                                    !.error = "Session ID required"]
                     ELSE IF ~session.exists
                     THEN [h EXCEPT !.pc = "done", !.statusCode = 404,
                                    !.error = "Session not found"]
                     ELSE IF task_token = NoToken
                     THEN [h EXCEPT !.pc = "done", !.statusCode = 400,
                                    !.error = "No pending prompt"]
                     ELSE [h EXCEPT !.pc = "callback", !.task_token = task_token]]
               /\ UNCHANGED <<config, genVars, cmVars, dispVars, agentVars, session, sfn>>
         [] handler[r].pc = "callback" ->
               /\ sfn' = [sfn EXCEPT !.success = Append(@, handler[r].task_token)]
               /\ handler' = [handler EXCEPT ![r].pc = "clear"]
               /\ UNCHANGED <<config, genVars, ops, cmVars, dispVars, agentVars, session>>
         [] OTHER ->
               /\ session' = [session EXCEPT !.exists = TRUE, !.pendingTaskToken = NoToken]
               /\ handler' = [handler EXCEPT ![r].pc = "done", ![r].statusCode = 200]
               /\ UNCHANGED <<config, genVars, ops, cmVars, dispVars, agentVars, sfn>>

\* handle-timeout: REMOVE #ctx.pendingTaskToken, #ctx.pendingPrompt SET
\* #ctx.timedOut; rejected (and reported as a handler failure) when the item
\* has no context map.
HandleTimeout ==
    /\ session' = IF session.context.present
                   THEN [session EXCEPT !.context.pendingTaskToken = NoToken,
                                        !.context.timedOut = TRUE]
                   ELSE session
    /\ UNCHANGED <<config, genVars, ops, cmVars, dispVars, agentVars, handler, sfn>>

----------------------------------------------------------------------------
(* Specifications *)

NoReq ==
    [ query |-> <<>>, dag |-> MissingFile, data |-> MissingData,
      oracle |-> [create |-> "fail", identify |-> "fail", est |-> <<>>] ]

InitIdle ==
    /\ gen = [g \in Gens |-> NoGen]
    /\ age = [g \in Gens |-> 0]
    /\ sample = NoSample
    /\ out = [g \in Gens |-> NoOut]
    /\ trace = [g \in Gens |-> <<>>]
    /\ ops = 0
    /\ cm = NoCM
    /\ cmOut = CmOut("none", NoErr, NoData)
    /\ agent = NewAgent
    /\ reply = NoReply
    /\ session = NoItem
    /\ handler = [r \in Responders |-> Idle]
    /\ sfn = [issued |-> 0, success |-> <<>>, failure |-> <<>>]

InitCommon ==
    /\ InitIdle
    /\ req = NoReq
    /\ result = NoResult
    /\ calls = <<>>

\* One generator over every configuration: graph construction, ordering and
\* table shape.
BootRng == { ReseedEntropy(e) : e \in Entropy }

InitGraph == config \in GraphConfigs /\ rng \in BootRng /\ InitCommon

NextGraph ==
    \/ NewGenerator("g1", IntSeed(0))
    \/ \E p \in ParamSet : GenerateData("g1", p)
    \/ NewCausalModel(DictSource(config), NoData, "graph")

SpecGraph == InitGraph /\ [][NextGraph]_vars

\* Several generators in one process, sharing numpy's global generator.
InitGen == config \in GenConfigs /\ rng \in BootRng /\ InitCommon

\* Calls with n_samples = MaxSamples.
WideParams == { p \in ParamSet : p.n_samples = MaxSamples }

NextGen ==
    \/ \E g \in Gens, s \in Seeds : NewGenerator(g, s)
    \/ \E g \in Gens, p \in WideParams : GenerateData(g, p)
    \/ \E te \in TreatmentEffects, d \in BOOLEAN, k \in 0..MaxSeed :
          GenerateSampleDataset(MaxSamples, te, d, k)

SpecGen == InitGen /\ [][NextGen]_vars

\* One generator making batches of datasets.
InitMulti == config \in GenConfigs /\ rng \in BootRng /\ InitCommon

NextMulti ==
    \/ \E s \in Seeds : NewGenerator("g1", s)
    \/ \E p \in WideParams : GenerateData("g1", p)
    \/ \E n \in 1..MaxDatasets, p \in ParamSet :
          GenerateMultipleDatasets("g1", n, NoEffects, p)
    \/ \E l \in EffectLists, p \in ParamSet :
          GenerateMultipleDatasets("g1", MaxDatasets, l, p)

SpecMulti == InitMulti /\ [][NextMulti]_vars

\* One generator over configurations whose roles and types vary: the
\* coefficient each procedure gives each edge.
SwappedTypeOf(v) ==
    CASE v = "X" -> "binary"
      [] v = "T" -> "continuous"
      [] v = "Y" -> "binary"
      [] OTHER   -> "continuous"

CoeffEdges == {<<"X", "T">>, <<"X", "Y">>, <<"T", "Y">>, <<"T", "Z">>, <<"X", "Z">>}

CoeffConfigs ==
    { MkTypedConfig(types, CoeffEdges, AllKeys, t, o, cf) :
        types \in { [v \in Names |-> TypeOf(v)], [v \in Names |-> SwappedTypeOf(v)] },
        t \in {"T", "X", ""}, o \in {"Y", "Z", "T", ""},
        cf \in SUBSET {"X", "T"} }

CoeffParams ==
    { Params(MaxSamples, te, 12, cs) : te \in TreatmentEffects, cs \in {24, 36} }

InitCoeff == config \in CoeffConfigs /\ rng \in BootRng /\ InitCommon

NextCoeff ==
    \/ NewGenerator("g1", IntSeed(0))
    \/ \E p \in CoeffParams : GenerateData("g1", p)

SpecCoeff == InitCoeff /\ [][NextCoeff]_vars

\* A CausalModel object over its life: construction with or without data,
\* then attach_data calls.
RoleVariants ==
    { MkConfig(vs, es, AllKeys, t, "Y", {"X"}) :
        vs \in { {"X", "T", "Y"}, {"T", "Y"}, {"X"}, {} },
        es \in { {}, {<<"X", "T">>, <<"T", "Y">>} },
        t \in {"T", ""} }

ModelConfigs ==
    RoleVariants \cup
    { MkConfig({"X", "T", "Y"}, {<<"X", "Y">>, <<"Y", "X">>}, AllKeys, "T", "Y", {"X"}),
      MkConfig({"X", "T", "Y"}, {}, {"variables"}, "T", "Y", {"X"}),
      MkConfig({"X", "T", "Y"}, {}, {"edges"}, "T", "Y", {"X"}) }

ModelTables ==
    { DataTable(cols, MaxSamples) : cols \in { {"X", "T", "Y"}, {"T", "Y"}, {"X", "Z"}, {} } }

InitModel == config \in ModelConfigs /\ rng = ReseedEntropy(1) /\ InitCommon

NextModel ==
    \/ \E d \in ModelTables \cup {NoData}, o \in DowhyOutcomes :
          NewCausalModel(DictSource(config), d, o)
    \/ \E d \in ModelTables, o \in DowhyOutcomes : AttachData(d, o)

SpecModel == InitModel /\ [][NextModel]_vars

\* dispatch_query on one request.
Recognized ==
    { "effect_estimation", "anomaly_attribution", "distribution_shift_attribution",
      "intervention", "counterfactual" }

\* Below every outcome, just below the largest, the largest, above all.
Thresholds == {0, BaseValue("Y", MaxRows) - 1, BaseValue("Y", MaxRows), 100}

Queries ==
    { [ query_type |-> "effect_estimation", treatment_variable |-> "T",
        outcome_variable |-> "Y", confounders |-> <<"X">> ],
      [ query_type |-> "effect_estimation", treatment_variable |-> "T" ],
      [ query_type |-> "effect_estimation", treatment_variable |-> "X",
        outcome_variable |-> "Y" ],
      [ query_type |-> "distribution_shift_attribution", target_variable |-> "Y",
        baseline_period |-> "a", comparison_period |-> "b", potential_drivers |-> <<"X", "T">> ],
      [ query_type |-> "distribution_shift_attribution", target_variable |-> "Y",
        baseline_period |-> "2024-02", comparison_period |-> "2024-01",
        potential_drivers |-> <<"X", "T">> ],
      [ query_type |-> "distribution_shift_attribution", target_variable |-> "Y",
        baseline_period |-> "a", comparison_period |-> "b", potential_drivers |-> <<"W", "Z">> ],
      [ query_type |-> "distribution_shift_attribution", target_variable |-> "Y",
        baseline_period |-> "a", comparison_period |-> "b", potential_drivers |-> <<>> ],
      [ query_type |-> "distribution_shift_attribution", target_variable |-> "W",
        baseline_period |-> "a", comparison_period |-> "b", potential_drivers |-> <<"X">> ],
      [ query_type |-> "intervention", intervention_variable |-> "T",
        intervention_value |-> 1, outcome_variables |-> <<"Y", "W">> ],
      [ query_type |-> "intervention", intervention_variable |-> "W",
        intervention_value |-> 1, outcome_variables |-> <<"Y">> ],
      [ query_type |-> "intervention", intervention_variable |-> "T",
        intervention_value |-> 1, outcome_variables |-> <<"X">> ],
      [ query_type |-> "intervention", intervention_variable |-> "Z",
        intervention_value |-> 2, outcome_variables |-> <<"Y">> ],
      [ query_type |-> "intervention", intervention_variable |-> "T" ],
      [ query_type |-> "counterfactual", factual_scenario |-> << <<"T", 0>>, <<"X", 2>> >>,
        counterfactual_scenario |-> << <<"T", 1>>, <<"X", 2>> >>, outcome_variable |-> "Y" ],
      [ query_type |-> "counterfactual", factual_scenario |-> << <<"T", 1>> >>,
        counterfactual_scenario |-> << <<"T", 1>> >>, outcome_variable |-> "Y" ],
      [ query_type |-> "counterfactual", factual_scenario |-> << <<"T", 1>> >>,
        counterfactual_scenario |-> << <<"T", 1>> >>, outcome_variable |-> "W" ],
      [ query_type |-> "counterfactual", factual_scenario |-> << <<"X", 2>>, <<"T", 0>> >>,
        counterfactual_scenario |-> << <<"X", 2>>, <<"T", 0>> >>, outcome_variable |-> "Y" ],
      [ query_type |-> "counterfactual", factual_scenario |-> << <<"T", 0>>, <<"X", 2>> >>,
        counterfactual_scenario |-> << <<"T", 0>>, <<"X", 2>> >>, outcome_variable |-> "Y" ],
      [ query_type |-> "counterfactual", factual_scenario |-> << <<"T", 1>> >>,
        counterfactual_scenario |-> << <<"T", 0>> >>, outcome_variable |-> "W" ],
      [ query_type |-> "counterfactual", factual_scenario |-> << <<"T", 1>> >> ],
      [ query_type |-> "not_a_real_type", outcome_variable |-> "Y" ],
      [ outcome_variable |-> "Y" ] }
    \cup
    { [ query_type |-> "anomaly_attribution", outcome_variable |-> y,
        anomaly_threshold |-> th, potential_causes |-> pc ] :
        y \in {"Y", "W"}, th \in Thresholds, pc \in { <<"X", "T">>, <<>>, <<"W">> } }
    \cup
    { [ query_type |-> "anomaly_attribution", outcome_variable |-> "Y" ] }

CyclicConfig ==
    MkConfig({"X", "T", "Y"}, {<<"X", "T">>, <<"T", "Y">>, <<"Y", "X">>},
             AllKeys, "T", "Y", {"X"})

DagSources ==
    { MissingFile, MalformedFile,
      FileSource(StandardConfig),
      FileSource(CyclicConfig),
      FileSource(MkConfig(Names, {<<"X", "T">>, <<"T", "Y">>, <<"T", "Z">>},
                          AllKeys, "T", "Y", {"X"})),
      FileSource(MkConfig({"X", "T", "Y"}, {}, {"variables"}, "T", "Y", {"X"})),
      FileSource(MkConfig({"X", "T", "Y"}, {<<"T", "Y">>}, AllKeys, "", "Y", {})) }

DataSources ==
    { MissingData,
      CsvFile(DataTable({"X", "T", "Y"}, MaxRows)),
      CsvFile(DataTable({"X", "T", "Y"}, 1)),
      CsvFile(DataTable({"X", "T", "Y"}, 0)),
      CsvFile(DataTable({"T", "Y", "Z"}, MaxRows)) }

EstimateAnswers ==
    { [fail |-> TRUE, value |-> 0] } \cup { [fail |-> FALSE, value |-> v] : v \in {-2, 0, 3} }

Oracles ==
    [ create : DowhyOutcomes, identify : {"ok", "fail"},
      est : [1..Len(Methods) -> EstimateAnswers] ]

\* Requests whose query is not an effect estimation get one answer of the
\* library's estimators (the handlers do not ask for them).
Requests ==
    { r \in [query : Queries, dag : DagSources, data : DataSources, oracle : Oracles] :
        (Has(r.query, "query_type") /\ r.query.query_type = "effect_estimation")
        \/ (r.oracle.identify = "ok" /\ \A i \in 1..Len(Methods) : r.oracle.est[i].fail) }

InitDispatch ==
    /\ config = StandardConfig
    /\ rng = ReseedEntropy(1)
    /\ InitIdle
    /\ req \in Requests
    /\ result = NoResult
    /\ calls = <<>>

Spec == InitDispatch /\ [][Dispatch]_vars

\* Several dispatch_query calls in one process, between calls that reseed
\* and advance numpy's generator.
CallQueries ==
    { [ query_type |-> "intervention", intervention_variable |-> "T",
        intervention_value |-> 1, outcome_variables |-> <<"Y">> ],
      [ query_type |-> "counterfactual", factual_scenario |-> << <<"T", 0>>, <<"X", 2>> >>,
        counterfactual_scenario |-> << <<"T", 1>>, <<"X", 2>> >>, outcome_variable |-> "Y" ],
      [ query_type |-> "effect_estimation", treatment_variable |-> "T",
        outcome_variable |-> "Y" ] }

CallDags == { FileSource(StandardConfig), MissingFile }

CallData == { CsvFile(DataTable({"X", "T", "Y"}, MaxRows)), CsvFile(DataTable({"X", "T", "Y"}, 1)) }

Libraries ==
    { o \in Oracles : o.create = "graph" /\ o.identify = "ok"
                      /\ o.est[1].fail /\ o.est[2] \in {[fail |-> FALSE, value |-> 3],
                                                         [fail |-> TRUE, value |-> 0]} }

InitCalls ==
    /\ config = StandardConfig
    /\ rng \in BootRng
    /\ InitIdle
    /\ req \in { [NoReq EXCEPT !.oracle = o] : o \in Libraries }
    /\ result = NoResult
    /\ calls = <<>>

NextCalls ==
    \/ \E q \in CallQueries, dag \in CallDags, ds \in CallData : DispatchCall(q, dag, ds)
    \/ \E s \in Seeds : NewGenerator("g1", s)
    \/ GenerateData("g1", Params(MaxSamples, 48, 12, 24))

SpecCalls == InitCalls /\ [][NextCalls]_vars

\* The conversational agent over a few turns, with resets.
Messages == { <<"Y", "e", "s">>, <<"n", "o">>, <<"n", "o", "t", " ", "O", "K">> }

Proposal(dag_file, query_type, confidence_ok) ==
    [ none |-> FALSE, dag_file |-> dag_file, data_file |-> "data.csv",
      treatment_variable |-> "T", outcome_variable |-> "Y", query_type |-> query_type,
      confidence_ok |-> confidence_ok ]

Proposals ==
    { Proposal("dag.json", "effect_estimation", TRUE),
      Proposal("dag.json", "intervention", FALSE),
      Proposal("gone.json", "effect_estimation", TRUE) }

LlmReplies == {Unparseable} \cup { ProposalJson(p) : p \in Proposals }

AgentLibraries ==
    { o \in Oracles : o.create = "graph" /\ o.identify = "ok"
                      /\ o.est[1] = [fail |-> FALSE, value |-> 3]
                      /\ o.est[2] = [fail |-> TRUE, value |-> 0] }

InitAgent == config = StandardConfig /\ rng = ReseedEntropy(1) /\ InitCommon

NextAgent ==
    \/ \E question \in Messages, llm \in LlmReplies, eda \in EdaOutcomes,
          o \in AgentLibraries : ProcessUserQuestion(question, llm, eda, o)
    \/ Reset

SpecAgent == InitAgent /\ [][NextAgent]_vars

\* One session of the cloud functions: queries, tool outputs, prompts,
\* concurrently handled responses and the timeout handler.
InitCallback == config = StandardConfig /\ rng = ReseedEntropy(1) /\ InitCommon

NextCallback ==
    \/ HandleQuery
    \/ AppendToolOutput
    \/ \E connections \in BOOLEAN : SendPrompt(connections)
    \/ \E r \in Responders, hasSessionId \in BOOLEAN : HandleUserResponse(r, hasSessionId)
    \/ HandleTimeout

SpecCallback == InitCallback /\ [][NextCallback]_vars

----------------------------------------------------------------------------
(* Claims *)

\* What the code raises while loading the data and building the model.
LoadError(r) ==
    LET csv == ReadCsv(r.data)
    IN IF csv.err # NoErr THEN csv.err
       ELSE CausalModelInit(r.dag, csv.data, r.oracle.create).err

TagOf(q) == IF Has(q, "query_type") THEN q.query_type ELSE PyNone

\* C1: dispatch_query never raises; for every query, graph source (missing,
\* malformed and cyclic ones included) and data source it returns a result
\* with a boolean success field, and a configuration or loading error (a
\* cyclic edge set is one) gives success = false together with an error.
C1_NeverRaises ==
    result.called =>
        /\ ~result.raised
        /\ "success" \in DOMAIN result.value
        /\ result.value.success \in BOOLEAN
        /\ LoadError(req) # NoErr =>
              (result.value.success = FALSE /\ result.value.error = LoadError(req))
        /\ (req.dag.kind = "file" /\ HasCycle(req.dag.cfg.edges)) =>
              (result.value.success = FALSE /\ "error" \in DOMAIN result.value)

\* C2 as stated: a query whose tag is none of the five recognized ones gets
\* success = false and the error "Unknown query type: <tag>", whatever the
\* graph source and the data source are.
C2_AnySource ==
    (result.called /\ TagOf(req.query) \notin Recognized) =>
        /\ result.value.success = FALSE
        /\ result.value.error =
              [text |-> "Unknown query type", names |-> {Str(TagOf(req.query))}]

\* C2: when the data file and the configuration load and the model is
\* built, a query whose tag is none of the five recognized ones gets
\* success = false and the error "Unknown query type: <tag>"; when loading
\* fails it gets success = false and the loading error instead.
C2_UnknownTag ==
    (result.called /\ TagOf(req.query) \notin Recognized) =>
        /\ result.value.success = FALSE
        /\ result.value.error =
              IF LoadError(req) = NoErr
              THEN [text |-> "Unknown query type", names |-> {Str(TagOf(req.query))}]
              ELSE LoadError(req)

C2_Witness ==
    /\ result.called
    /\ TagOf(req.query) = "not_a_real_type"
    /\ LoadError(req) = NoErr
    /\ result.value.success = FALSE
    /\ result.value.error.names = {"not_a_real_type"}
    /\ result.value.query_type = "not_a_real_type"

\* C3 as stated: every result carries success, query_type and summary; error
\* is present exactly when success = false; for a recognized tag the
\* result's query_type is the query's tag.
C3_AlwaysSummary ==
    result.called =>
        /\ {"success", "query_type", "summary"} \subseteq DOMAIN result.value
        /\ ("error" \in DOMAIN result.value) <=> (result.value.success = FALSE)
        /\ TagOf(req.query) \in Recognized => result.value.query_type = TagOf(req.query)

\* C3: every result carries success and query_type; summary is present
\* exactly when success = true and error exactly when success = false; for a
\* recognized tag the result's query_type is the query's tag, on success, on
\* a handler's converted exception and on a loading error.
C3_ResultShape ==
    result.called =>
        /\ {"success", "query_type"} \subseteq DOMAIN result.value
        /\ ("summary" \in DOMAIN result.value) <=> (result.value.success = TRUE)
        /\ ("error" \in DOMAIN result.value) <=> (result.value.success = FALSE)
        /\ TagOf(req.query) \in Recognized => result.value.query_type = TagOf(req.query)

\* A handler's exception (a key the query lacks) converted into a failure.
C3_Witness ==
    /\ result.called
    /\ TagOf(req.query) = "counterfactual"
    /\ LoadError(req) = NoErr
    /\ result.value.success = FALSE
    /\ result.value.error = KeyErr("counterfactual_scenario")
    /\ result.value.query_type = "counterfactual"
    /\ "summary" \notin DOMAIN result.value

\* C4: a configuration whose edge set has a directed cycle never yields a
\* graph object: the generator's constructor and the CausalModel constructor
\* both fail on it with an error.
C4_CyclicNeverBuilt ==
    /\ \A g \in Gens : gen[g].built => ~HasCycle(gen[g].graph.edges)
    /\ \A g \in Gens :
          (out[g].op = "init" /\ HasCycle(config.edges))
             => out[g].err = "The provided graph is not a DAG"
    /\ cm.exists => ~HasCycle(cm.graph.edges)
    /\ (cmOut.op = "init" /\ HasCycle(config.edges)) => cmOut.err # NoErr

\* C5: for an acyclic configuration the generator's topological order holds
\* every declared variable exactly once and every edge's source before its
\* target, and whenever generate_data simulates a variable the columns of
\* all its parents are already in the data.
C5_TopologicalOrder ==
    \A g \in Gens : gen[g].built =>
        LET order == gen[g].topological_order
        IN /\ \A v \in DOMAIN gen[g].variables :
                 Cardinality({ i \in 1..Len(order) : order[i] = v }) = 1
           /\ \A e \in gen[g].edges :
                 \E i, j \in 1..Len(order) :
                    i < j /\ order[i] = e[1] /\ order[j] = e[2]
           /\ \A k \in 1..Len(trace[g]) :
                 Predecessors(gen[g].graph, trace[g][k].var) \subseteq trace[g][k].have

C5_Witness ==
    /\ gen["g1"].built
    /\ out["g1"].op = "generate_data" /\ out["g1"].err = ""
    /\ Len(trace["g1"]) = 4
    /\ \E k \in 1..Len(trace["g1"]) :
          Cardinality(Predecessors(gen["g1"].graph, trace["g1"][k].var)) = 2

\* C6: generate_data on an accepted acyclic configuration returns a table
\* with exactly the declared variables as columns and n_samples rows.
C6_TableShape ==
    \A g \in Gens : (gen[g].built /\ out[g].op = "generate_data") =>
        /\ out[g].err = ""
        /\ out[g].table.columns = DOMAIN gen[g].variables
        /\ out[g].table.nrows = out[g].args.n_samples

\* C7: the coefficient of every edge parent->child of a generated column is
\* treatment_effect on the treatment->outcome edge, else confounder_strength
\* from a confounder into the treatment or the outcome, else 0.5, whatever
\* the type (continuous, binary, categorical) of the child.
C7_ClaimedCoeff(cfg, parent, child, p) ==
    IF parent = cfg.treatment_variable /\ child = cfg.outcome_variable
    THEN p.treatment_effect
    ELSE IF parent \in cfg.confounders
            /\ child \in {cfg.treatment_variable, cfg.outcome_variable}
    THEN p.confounder_strength
    ELSE 12

C7_Coefficients ==
    \A g \in Gens : (out[g].op = "generate_data" /\ out[g].err = "") =>
        \A v \in out[g].table.columns :
            LET terms == out[g].table.col[v].terms
            IN /\ DOMAIN terms = Predecessors(gen[g].graph, v)
               /\ \A q \in DOMAIN terms :
                     terms[q] = C7_ClaimedCoeff(gen[g].dag_config, q, v, out[g].args)

\* The treatment is also declared a confounder, and the outcome is binary.
C7_Witness ==
    /\ out["g1"].op = "generate_data" /\ out["g1"].err = ""
    /\ config.treatment_variable = "T" /\ config.outcome_variable = "Y"
    /\ config.confounders = {"X", "T"}
    /\ config.variables["Y"] = "binary"
    /\ out["g1"].args.treatment_effect = 48
    /\ out["g1"].args.confounder_strength = 36
    /\ out["g1"].table.col["Y"].terms["T"] = 48
    /\ out["g1"].table.col["Z"].terms["T"] = 12

\* C8: two generate_data calls, each made right after the construction of
\* its generator, with the same configuration, the same (integer) seed and
\* the same parameters, return identical tables.
FreshRuns ==
    { [ cfg |-> gen[g].dag_config, seed |-> gen[g].seed, args |-> out[g].args,
        err |-> out[g].err, table |-> out[g].table ] :
        g \in { h \in Gens : out[h].op = "generate_data" /\ out[h].fresh } }
    \cup { [ cfg |-> sample.cfg, seed |-> sample.seed, args |-> sample.args,
             err |-> sample.err, table |-> sample.table ] : x \in { y \in {1} : sample.called } }

C8_Reproducible ==
    \A a, b \in FreshRuns :
        (a.cfg = b.cfg /\ a.seed = b.seed /\ ~a.seed.none /\ a.args = b.args)
           => (a.table = b.table /\ a.err = b.err)

C8_Witness ==
    /\ out["g1"].op = "generate_data" /\ out["g1"].fresh /\ out["g1"].err = ""
    /\ sample.called /\ sample.cfg = gen["g1"].dag_config
    /\ sample.seed = gen["g1"].seed /\ sample.args = out["g1"].args
    /\ sample.table.nrows = MaxSamples

\* C9: generate_multiple_datasets returns one (table, effect) pair per
\* effect, in order; the i-th table is the one a fresh generator seeded with
\* seed + i makes with that effect; for every seed the constructor accepts.
C9_MultipleDatasets ==
    \A g \in Gens : out[g].op = "generate_multiple_datasets" =>
        LET n == out[g].args.treatment_effect
            effects == IF out[g].effects.given THEN out[g].effects.list
                       ELSE [i \in 1..n |-> IF n = 1 THEN 12
                                            ELSE 12 + ((i - 1) * 60) \div (n - 1)]
        IN /\ out[g].err = ""
           /\ Len(out[g].datasets) = Len(effects)
           /\ \A i \in 1..Len(out[g].datasets) :
                 /\ out[g].datasets[i][2] = effects[i]
                 /\ ~gen[g].seed.none =>
                       out[g].datasets[i][1] =
                          GenerateDataOf(
                             Construct(gen[g].dag_config, IntSeed(gen[g].seed.val + i - 1)),
                             [out[g].args EXCEPT !.treatment_effect = effects[i]],
                             Reseed(gen[g].seed.val + i - 1)).table

\* C10: attach_data succeeds only if no declared variable lacks a column;
\* otherwise it fails with the missing-variables error naming exactly the
\* declared variables without a column.
C10_AttachValidates ==
    cmOut.op = "attach_data" =>
        LET missing == DOMAIN cm.dag_config.variables \ cmOut.data.columns
        IN /\ cmOut.err = NoErr => missing = {}
           /\ missing # {} =>
                 /\ cmOut.err.text = "Data is missing required variables"
                 /\ cmOut.err.names = missing

C10_Witness ==
    /\ cmOut.op = "attach_data"
    /\ DOMAIN cm.dag_config.variables = {"X", "T", "Y"}
    /\ cmOut.data.columns = {"T", "Y"}
    /\ cmOut.err.names = {"X"}

\* C11: when the data file lacks a column for a variable the configuration
\* declares, dispatch fails as a whole, for every query kind, with the
\* missing-variables message; no handler computes a result.
C11_MissingColumnFails ==
    (/\ result.called
     /\ req.data.kind = "csv"
     /\ req.dag.kind = "file"
     /\ AllKeys \subseteq req.dag.cfg.keys
     /\ DOMAIN req.dag.cfg.variables \ req.data.table.columns # {}) =>
        /\ result.value.success = FALSE
        /\ result.value.error =
              [ text |-> "Data is missing required variables",
                names |-> DOMAIN req.dag.cfg.variables \ req.data.table.columns ]

\* An effect-estimation request that reaches the loop over the methods.
ReachesMethods(r) ==
    /\ TagOf(r.query) = "effect_estimation"
    /\ LoadError(r) = NoErr
    /\ FirstMissing(r.query, <<"treatment_variable", "outcome_variable">>) = ""
    /\ r.oracle.identify = "ok"

\* C12: after identification every method is attempted once, in list order,
\* whether or not earlier ones failed: the result lists one entry per
\* method, in order, an estimate where the method succeeded and an error
\* where it failed; it is a success iff some method succeeded, its estimate
\* is that of the first method that succeeded, and when all fail it is a
\* failure with one error entry per method.
C12_EveryMethodOnce ==
    (result.called /\ ReachesMethods(req)) =>
        LET v == result.value
            succeeded == { i \in 1..Len(Methods) : ~req.oracle.est[i].fail }
            entries == IF v.success THEN v.all_estimates ELSE v.failed_estimates
        IN /\ v.success = (succeeded # {})
           /\ Len(entries) = Len(Methods)
           /\ \A i \in 1..Len(Methods) :
                 /\ entries[i].method = Methods[i]
                 /\ Has(entries[i], "estimate") = (i \in succeeded)
                 /\ Has(entries[i], "error") = (i \notin succeeded)
           /\ v.success =>
                 \E i \in succeeded :
                    /\ \A j \in succeeded : i <= j
                    /\ v.estimate = Int2Num(req.oracle.est[i].value)
           /\ ~v.success => v.error = Err("All estimation methods failed")

\* The first method fails and the second succeeds.
C12_Witness ==
    /\ result.called /\ ReachesMethods(req)
    /\ req.oracle.est[1].fail /\ ~req.oracle.est[2].fail
    /\ result.value.success
    /\ result.value.estimate = Int2Num(3)
    /\ Has(result.value.all_estimates[1], "error")

\* C13: every method that succeeds with estimate e reports the interval
\* [e - 1.96*0.1*|e|, e + 1.96*0.1*|e|], so lower <= e <= upper whatever
\* the sign of e, and the result's confidence_interval is the primary
\* method's.
C13_ConfidenceBand ==
    (result.called /\ ReachesMethods(req) /\ result.value.success) =>
        LET v == result.value
        IN /\ \A i \in 1..Len(Methods) :
                 Has(v.all_estimates[i], "estimate") =>
                    LET e == req.oracle.est[i].value
                        lower == AsRat(v.all_estimates[i].confidence_interval[1])
                        upper == AsRat(v.all_estimates[i].confidence_interval[2])
                    IN /\ lower = Rat(1000 * e - 196 * Abs(e), 1000)
                       /\ upper = Rat(1000 * e + 196 * Abs(e), 1000)
                       /\ ~RatLess(Rat(e, 1), lower)
                       /\ ~RatLess(upper, Rat(e, 1))
           /\ \E i \in 1..Len(Methods) :
                 /\ Has(v.all_estimates[i], "estimate")
                 /\ v.estimate = v.all_estimates[i].estimate
                 /\ v.confidence_interval = v.all_estimates[i].confidence_interval
                 /\ \A j \in 1..(i - 1) : ~Has(v.all_estimates[j], "estimate")

\* A negative primary estimate and a zero second estimate.
C13_Witness ==
    /\ result.called /\ ReachesMethods(req) /\ result.value.success
    /\ req.oracle.est[1].value = -2 /\ ~req.oracle.est[1].fail
    /\ req.oracle.est[2].value = 0 /\ ~req.oracle.est[2].fail
    /\ AsRat(result.value.confidence_interval[1]) = Rat(-2392, 1000)
    /\ result.value.all_estimates[2].confidence_interval = <<Zero, Zero>>

\* An anomaly-attribution request whose handler reaches the comparison.
ReachesAnomalies(r) ==
    /\ TagOf(r.query) = "anomaly_attribution"
    /\ LoadError(r) = NoErr
    /\ FirstMissing(r.query, <<"outcome_variable", "anomaly_threshold", "potential_causes">>) = ""
    /\ r.query.outcome_variable \in r.data.table.columns

Flagged(r) ==
    { i \in 1..Len(r.data.table.rows) :
        r.data.table.rows[i][r.query.outcome_variable] > r.query.anomaly_threshold }

\* C14: the anomalies are exactly the rows whose outcome is strictly above
\* the threshold; when there is none (a threshold above or equal to the
\* largest outcome) the result is success = true with anomalies_found = 0
\* and an empty attribution map, whatever the potential causes are.
C14_StrictThreshold ==
    (result.called /\ ReachesAnomalies(req)) =>
        /\ Flagged(req) = {} =>
              /\ result.value.success = TRUE
              /\ result.value.anomalies_found = 0
              /\ result.value.attribution_scores = EmptyDict
        /\ result.value.success = TRUE =>
              result.value.anomalies_found = Cardinality(Flagged(req))

\* The threshold is the largest outcome of a table with MaxRows rows.
C14_Witness ==
    /\ result.called /\ ReachesAnomalies(req)
    /\ Len(req.data.table.rows) = MaxRows
    /\ \E i \in 1..MaxRows : req.data.table.rows[i]["Y"] = req.query.anomaly_threshold
    /\ \A i \in 1..MaxRows : req.data.table.rows[i]["Y"] <= req.query.anomaly_threshold
    /\ req.query.potential_causes = <<"W">>
    /\ result.value.success = TRUE
    /\ result.value.anomalies_found = 0

\* An intervention request whose handler reaches its loop over the outcomes.
ReachesOutcomes(r) ==
    /\ TagOf(r.query) = "intervention"
    /\ LoadError(r) = NoErr
    /\ FirstMissing(r.query, <<"intervention_variable", "intervention_value",
                               "outcome_variables">>) = ""

\* The correlation of the intervention variable with outcome y is 0 or
\* undefined, or the intervention variable is no column.
NoLinearLink(r, y) ==
    LET data == r.data.table
        iv == r.query.intervention_variable
    IN \/ iv \notin data.columns
       \/ IsNaN(Corr(Column_(data, iv), Column_(data, y)))
       \/ Corr(Column_(data, iv), Column_(data, y)) = Zero

\* C15: for every requested outcome that is a column, when the intervention
\* variable is no column, or its correlation with the outcome is NaN or 0,
\* the effect is exactly 0, never NaN, intervened_value is original_value,
\* and the query succeeds.
C15_ZeroEffect ==
    (result.called /\ ReachesOutcomes(req)) =>
        /\ result.value.success = TRUE
        /\ \A i \in 1..Len(req.query.outcome_variables) :
              LET y == req.query.outcome_variables[i]
              IN (y \in req.data.table.columns /\ NoLinearLink(req, y)) =>
                    /\ y \in DOMAIN result.value.intervention_effects
                    /\ result.value.intervention_effects[y].effect = Zero
                    /\ result.value.intervention_effects[y].intervened_value =
                          result.value.intervention_effects[y].original_value

\* A counterfactual request with the same factual and counterfactual
\* scenario, on a model that was built.
SameScenario(r) ==
    /\ TagOf(r.query) = "counterfactual"
    /\ LoadError(r) = NoErr
    /\ FirstMissing(r.query, <<"factual_scenario", "counterfactual_scenario",
                               "outcome_variable">>) = ""
    /\ r.query.factual_scenario = r.query.counterfactual_scenario

\* C16: a counterfactual query with identical factual and counterfactual
\* scenarios succeeds with counterfactual_effect = 0 and
\* counterfactual_outcome = factual_outcome (as numbers: NaN equals
\* nothing), for every table and every outcome variable.
C16_IdenticalScenarios ==
    (result.called /\ SameScenario(req)) =>
        /\ result.value.success = TRUE
        /\ result.value.counterfactual_effect = Zero
        /\ ~IsNaN(result.value.factual_outcome)
        /\ result.value.counterfactual_outcome = result.value.factual_outcome

\* The numeric fields of a successful result, by handler.
NumericFields(v) ==
    CASE v.query_type = "effect_estimation" ->
            {v.estimate, v.confidence_interval[1], v.confidence_interval[2]}
      [] v.query_type = "anomaly_attribution" ->
            UNION { { v.attribution_scores[c].correlation,
                      v.attribution_scores[c].normal_mean,
                      v.attribution_scores[c].anomaly_mean,
                      v.attribution_scores[c].difference } :
                    c \in DOMAIN v.attribution_scores }
      [] v.query_type = "distribution_shift_attribution" ->
            {v.baseline_mean, v.comparison_mean, v.shift_magnitude}
            \cup UNION { { v.driver_contributions[d].baseline_mean,
                           v.driver_contributions[d].comparison_mean,
                           v.driver_contributions[d].shift,
                           v.driver_contributions[d].correlation_with_target,
                           v.driver_contributions[d].estimated_contribution } :
                         d \in DOMAIN v.driver_contributions }
      [] v.query_type = "intervention" ->
            UNION { { v.intervention_effects[y].original_value,
                      v.intervention_effects[y].intervened_value,
                      v.intervention_effects[y].effect } :
                    y \in DOMAIN v.intervention_effects }
      [] v.query_type = "counterfactual" ->
            {v.factual_outcome, v.counterfactual_outcome, v.counterfactual_effect}
      [] OTHER -> {}

\* C17: no numeric field of a successful result of any handler is NaN;
\* undefined correlations and means are reported as 0.
C17_NoNaN ==
    (result.called /\ result.value.success = TRUE) =>
        \A x \in NumericFields(result.value) : ~IsNaN(x)

ReachesFilter(r) ==
    /\ TagOf(r.query) = "counterfactual"
    /\ LoadError(r) = NoErr
    /\ FirstMissing(r.query, <<"factual_scenario", "counterfactual_scenario",
                               "outcome_variable">>) = ""
    /\ r.query.outcome_variable \in r.data.table.columns

\* The rows within one standard deviation of var (taken over the whole
\* table) of the factual value of var, for every factual variable that is a
\* column: the intersection of the per-variable filters.
PerVariableFilters(r) ==
    LET data == r.data.table
        sc == r.query.factual_scenario
        all == 1..Len(data.rows)
    IN { i \in all :
           \A k \in 1..Len(sc) :
              sc[k][1] \in data.columns => i \in FilterStep(data, all, sc[k][1], sc[k][2]) }

\* C19: the filtered row set of the counterfactual handler is the
\* intersection of the per-variable filters, each independent of the
\* others, so the factual outcome is the mean of the outcome over that
\* intersection (over the whole table when it is empty) in whatever order
\* the factual variables are listed.
C19_Intersection ==
    (result.called /\ ReachesFilter(req)) =>
        LET data == req.data.table
            rows == IF PerVariableFilters(req) = {} THEN 1..Len(data.rows)
                    ELSE PerVariableFilters(req)
        IN result.value.factual_outcome =
              Mean(Pick(Column_(data, req.query.outcome_variable), rows))

\* C20: the factual outcome is the mean of the outcome over the filtered
\* rows when there is one, and over the whole table exactly when no row
\* passes; and no filter step discards a row it should keep: a row still
\* kept whose value of the step's variable is the factual value (distance
\* 0, within any deviation) is kept by the step, a single remaining row
\* included.
C20_FallbackOnlyWhenEmpty ==
    (result.called /\ ReachesFilter(req)) =>
        LET data == req.data.table
            sc == req.query.factual_scenario
            all == 1..Len(data.rows)
            steps == FilterSteps(data, all, sc)
            before(k) == IF k = 1 THEN all ELSE steps[k - 1]
            final == IF sc = <<>> THEN all ELSE steps[Len(sc)]
        IN /\ result.value.factual_outcome =
                 Mean(Pick(Column_(data, req.query.outcome_variable),
                           IF final = {} THEN all ELSE final))
           /\ \A k \in 1..Len(sc) :
                 sc[k][1] \in data.columns =>
                    { i \in before(k) : data.rows[i][sc[k][1]] = sc[k][2] } \subseteq steps[k]

\* A distribution-shift request whose handler reaches the split.
ReachesSplit(r) ==
    /\ TagOf(r.query) = "distribution_shift_attribution"
    /\ LoadError(r) = NoErr
    /\ FirstMissing(r.query, <<"target_variable", "baseline_period",
                               "comparison_period", "potential_drivers">>) = ""
    /\ r.query.target_variable \in r.data.table.columns

\* The mean of column c over the first floor(n/2) rows and over the rest.
FirstHalfMean(r, c) ==
    LET n == Len(r.data.table.rows)
    IN Mean([i \in 1..(n \div 2) |-> r.data.table.rows[i][c]])

SecondHalfMean(r, c) ==
    LET n == Len(r.data.table.rows)
    IN Mean([i \in 1..(n - n \div 2) |-> r.data.table.rows[n \div 2 + i][c]])

\* C21: the baseline is the first floor(n/2) rows and the comparison the
\* remaining rows; shift_magnitude is the comparison mean minus the baseline
\* mean of the target; each driver's contribution is its own mean shift
\* times its correlation with the target (0 when the correlation is
\* undefined); whatever baseline_period and comparison_period say.
C21_HalfSplit ==
    (result.called /\ ReachesSplit(req) /\ result.value.success = TRUE) =>
        LET v == result.value
            t == req.query.target_variable
        IN /\ v.baseline_mean = FirstHalfMean(req, t)
           /\ v.comparison_mean = SecondHalfMean(req, t)
           /\ v.shift_magnitude = Sub(SecondHalfMean(req, t), FirstHalfMean(req, t))
           /\ \A d \in DOMAIN v.driver_contributions :
                 LET shift == Sub(SecondHalfMean(req, d), FirstHalfMean(req, d))
                     corr == Corr(Column_(req.data.table, d), Column_(req.data.table, t))
                 IN /\ v.driver_contributions[d].shift = shift
                    /\ v.driver_contributions[d].estimated_contribution =
                          IF IsNaN(corr) THEN Zero ELSE Scale(AsRat(shift), corr)

\* An odd number of rows, and periods named the other way round.
C21_Witness ==
    /\ result.called /\ ReachesSplit(req) /\ result.value.success = TRUE
    /\ Len(req.data.table.rows) = 3
    /\ req.query.baseline_period = "2024-02"
    /\ result.value.baseline_mean = Int2Num(3)
    /\ result.value.comparison_mean = Num(Rat(11, 2))
    /\ result.value.driver_contributions["X"].shift = Num(Rat(3, 2))
    /\ ~IsNaN(result.value.driver_contributions["X"].estimated_contribution)
    /\ result.value.driver_contributions["X"].estimated_contribution # Zero

\* C22: anomaly attribution with at least one anomalous row, and
\* distribution-shift attribution, succeed for every list of causes or
\* drivers, the empty list and a list of names that are not columns included.
C22_AbsentOptionalSucceeds ==
    result.called =>
        /\ (ReachesAnomalies(req) /\ Flagged(req) # {}) => result.value.success = TRUE
        /\ ReachesSplit(req) => result.value.success = TRUE

\* C25: the table generate_data returns is the one its generator's
\* configuration, (integer) seed and call parameters determine, that is the
\* table of a call made right after construction, whatever other
\* constructions and calls happened in the process in between.
C25_OwnStreamOnly ==
    \A g \in Gens :
        (out[g].op = "generate_data" /\ ~gen[g].seed.none) =>
            LET alone == GenerateDataOf(Construct(gen[g].dag_config, gen[g].seed),
                                        out[g].args, Reseed(gen[g].seed.val))
            IN out[g].table = alone.table /\ out[g].err = alone.err

\* C26: in every reachable state the external model held by a CausalModel,
\* when there is one, was built from the table the object currently holds
\* (so a failed attach_data left both as they were).
C26_ModelBuiltFromAttached ==
    (cm.exists /\ ~cm.dowhy_model.none) => cm.dowhy_model.data = cm.data

\* C27: the effect an effect-estimation result reports is the effect of the
\* query's treatment_variable on the query's outcome_variable: the pair the
\* result names is the pair the estimators were asked about, also when the
\* query names other variables than the configuration's roles.
C27_QueryVariablesEstimated ==
    (result.called /\ ReachesMethods(req) /\ result.value.success = TRUE) =>
        <<result.value.treatment_variable, result.value.outcome_variable>> =
            Estimand(CausalModelInit(req.dag, ReadCsv(req.data).data, req.oracle.create).obj)

\* A step in which the agent called dispatch_query.
Dispatches == Len(calls') > Len(calls)

\* The history, before the message being handled, holds a message handled
\* after the first one that approved and was answered with the analysis plan.
ApprovedIntoPlan(history) ==
    \E j \in 3..(Len(history) - 1) :
        /\ history[j].role = "user" /\ Approves(history[j].content)
        /\ history[j + 1] = AssistantEntry("plan")

C28_OneUserOneAssistant ==
    /\ reply.raised = ""
    /\ Len(agent.conversation_history) % 2 = 0
    /\ \A i \in 1..Len(agent.conversation_history) :
          agent.conversation_history[i].role = IF i % 2 = 1 THEN "user" ELSE "assistant"

AgentRecordsMatchState ==
    /\ agent.state # "initial" => ~agent.current_dag_proposal.none
    /\ agent.state \in {"eda_completed", "analysis_plan_proposed", "causal_analysis_completed"}
          => ~agent.eda_results.none
    /\ agent.state \in {"analysis_plan_proposed", "causal_analysis_completed"}
          => ~agent.current_analysis_plan.none
    /\ agent.state = "causal_analysis_completed" => ~agent.causal_results.none

AgentMovesForward ==
    \/ StateRank(agent'.state) >= StateRank(agent.state)
    \/ agent' = NewAgent

\* C29: a state other than INITIAL has a proposal recorded; EDA_COMPLETED
\* and later have EDA results; ANALYSIS_PLAN_PROPOSED and later have a plan;
\* CAUSAL_ANALYSIS_COMPLETED has causal results; the state never moves back
\* except to INITIAL with an empty history and nothing recorded (reset).
C29_StateImpliesRecords == []AgentRecordsMatchState /\ [][AgentMovesForward]_vars

\* A reset after a completed analysis: the dispatch call (one that returned
\* a failure) is on record and the agent is as new.
C29_Witness ==
    /\ Len(calls) = 1 /\ ~calls[1].value.success
    /\ agent = NewAgent

\* C24: a `response` handled while the session holds the token send-prompt
\* stored is answered with statusCode 200 after send_task_success was called
\* with that token.
C24_CallbackWithStoredToken ==
    \A r \in Responders :
        (handler[r].pc = "done"
         /\ handler[r].session_info.context.pendingTaskToken # NoToken) =>
            /\ handler[r].statusCode = 200
            /\ \E i \in 1..Len(sfn.success) :
                  sfn.success[i] = handler[r].session_info.context.pendingTaskToken

====
